---- MODULE Spec2Model ----
(***************************************************************************)
(* VibeStory: a model of the story backend.                                *)
(*                                                                         *)
(* Python strings are sequences of one-character strings, so that strip,   *)
(* split, splitlines, the fence regular expression, json.loads and the     *)
(* title heuristics are computed character by character as the code does.  *)
(***************************************************************************)
EXTENDS Integers, Sequences, FiniteSets, TLC

(***************************************************************************)
(* Strings                                                                 *)
(***************************************************************************)

\* a string literal as a sequence of characters
Chars(s) == [i \in 1..Len(s) |-> SubSeq(s, i, i)]

\* whitespace of str.strip(), str.split(), the regex class \s and JSON
WS == {" ", "\t", "\n"}

Lowers == Chars("abcdefghijklmnopqrstuvwxyz")
Uppers == Chars("ABCDEFGHIJKLMNOPQRSTUVWXYZ")

IsUpperChar(c) == \E i \in 1..26 : Uppers[i] = c
IsLowerChar(c) == \E i \in 1..26 : Lowers[i] = c
LowerChar(c) == IF IsUpperChar(c) THEN Lowers[CHOOSE i \in 1..26 : Uppers[i] = c] ELSE c
UpperChar(c) == IF IsLowerChar(c) THEN Uppers[CHOOSE i \in 1..26 : Lowers[i] = c] ELSE c

SetMin(S) == CHOOSE x \in S : \A y \in S : x <= y
SetMax(S) == CHOOSE x \in S : \A y \in S : y <= x

\* str.lower()
lower(s) == [i \in 1..Len(s) |-> LowerChar(s[i])]

\* str.capitalize(): first character upper-cased, the rest lower-cased
capitalize(s) == [i \in 1..Len(s) |-> IF i = 1 THEN UpperChar(s[i]) ELSE LowerChar(s[i])]

\* str.strip()
strip(s) ==
    LET keep == {i \in 1..Len(s) : s[i] \notin WS}
    IN  IF keep = {} THEN <<>> ELSE SubSeq(s, SetMin(keep), SetMax(keep))

\* str.lstrip()
lstrip(s) ==
    LET keep == {i \in 1..Len(s) : s[i] \notin WS}
    IN  IF keep = {} THEN <<>> ELSE SubSeq(s, SetMin(keep), Len(s))

\* str.startswith(p)
startswith(s, p) == Len(s) >= Len(p) /\ SubSeq(s, 1, Len(p)) = p

\* str.endswith(p)
endswith(s, p) == Len(s) >= Len(p) /\ SubSeq(s, Len(s) - Len(p) + 1, Len(s)) = p

\* str.split(): the maximal runs of non-whitespace characters
RECURSIVE split(_)
split(s) ==
    LET t == lstrip(s)
    IN  IF t = <<>> THEN <<>>
        ELSE LET ws == {i \in 1..Len(t) : t[i] \in WS}
                 e  == IF ws = {} THEN Len(t) + 1 ELSE SetMin(ws)
             IN  <<SubSeq(t, 1, e - 1)>> \o split(SubSeq(t, e, Len(t)))

\* str.splitlines() for the line break "\n"
RECURSIVE splitlines(_)
splitlines(s) ==
    IF s = <<>> THEN <<>>
    ELSE LET nl == {i \in 1..Len(s) : s[i] = "\n"}
         IN  IF nl = {} THEN <<s>>
             ELSE <<SubSeq(s, 1, SetMin(nl) - 1)>>
                      \o splitlines(SubSeq(s, SetMin(nl) + 1, Len(s)))

\* sep.join(parts)
RECURSIVE join(_, _)
join(sep, parts) ==
    IF parts = <<>> THEN <<>>
    ELSE IF Len(parts) = 1 THEN parts[1]
    ELSE parts[1] \o sep \o join(sep, Tail(parts))

\* the first n elements of a sequence: seq[:n]
Take(seq, n) == SubSeq(seq, 1, IF Len(seq) < n THEN Len(seq) ELSE n)

\* [l for l in lines if l.strip()]
NonBlank(lines) == SelectSeq(lines, LAMBDA l : strip(l) # <<>>)

\* str.istitle(): an upper-case letter only after an uncased character, a
\* lower-case letter only after a cased one, and at least one cased character
RECURSIVE istitleFrom(_, _, _, _)
istitleFrom(s, i, prevCased, seenCased) ==
    IF i > Len(s) THEN seenCased
    ELSE IF IsUpperChar(s[i])
         THEN IF prevCased THEN FALSE ELSE istitleFrom(s, i + 1, TRUE, TRUE)
    ELSE IF IsLowerChar(s[i])
         THEN IF prevCased THEN istitleFrom(s, i + 1, TRUE, TRUE) ELSE FALSE
    ELSE istitleFrom(s, i + 1, FALSE, seenCased)

istitle(s) == istitleFrom(s, 1, FALSE, FALSE)

\* the re.sub of line 139: drop the leading '#' markers and the whitespace
\* after them; a string without a leading '#' is left as it is
StripHashes(s) ==
    IF s = <<>> \/ s[1] # "#" THEN s
    ELSE LET rest == {i \in 1..Len(s) : s[i] # "#"}
         IN  IF rest = {} THEN <<>> ELSE lstrip(SubSeq(s, SetMin(rest), Len(s)))

(***************************************************************************)
(* json.loads on the JSON texts the completion API is modelled to return:  *)
(* one object whose keys are strings and whose values are strings, null or *)
(* unsigned integers.  Anything else is a JSONDecodeError.  A raw line     *)
(* break, tab or backslash inside a string literal is a decode error too   *)
(* (json.loads is strict about control characters).                        *)
(***************************************************************************)

JNull == [t |-> "null"]
JStr(v) == [t |-> "str", v |-> v]
JNum(n) == [t |-> "num", v |-> n]
Digits == Chars("0123456789")
IsDigit(c) == \E i \in 1..10 : Digits[i] = c
DigitVal(c) == (CHOOSE i \in 1..10 : Digits[i] = c) - 1

\* the first position at or after i that does not hold JSON whitespace
SkipWs(s, i) ==
    LET stop == {j \in i..Len(s) : s[j] \notin WS}
    IN  IF stop = {} THEN Len(s) + 1 ELSE SetMin(stop)

ParseFail == [ok |-> FALSE]

\* a string literal that opens at position i
ParseString(s, i) ==
    IF i > Len(s) \/ s[i] # "\"" THEN ParseFail
    ELSE LET close == {j \in (i + 1)..Len(s) : s[j] = "\""}
         IN  IF close = {} THEN ParseFail
             ELSE LET e == SetMin(close)
                      body == SubSeq(s, i + 1, e - 1)
                  IN  IF \E k \in 1..Len(body) : body[k] \in {"\n", "\t", "\\"}
                      THEN ParseFail
                      ELSE [ok |-> TRUE, val |-> body, next |-> e + 1]

RECURSIVE ParseDigits(_, _, _)
ParseDigits(s, i, acc) ==
    IF i <= Len(s) /\ IsDigit(s[i])
    THEN ParseDigits(s, i + 1, 10 * acc + DigitVal(s[i]))
    ELSE [ok |-> TRUE, val |-> JNum(acc), next |-> i]

\* a value that starts at position i: a string, null or an unsigned integer
ParseValue(s, i) ==
    IF i > Len(s) THEN ParseFail
    ELSE IF s[i] = "\""
         THEN LET r == ParseString(s, i)
              IN  IF r.ok THEN [ok |-> TRUE, val |-> JStr(r.val), next |-> r.next]
                  ELSE ParseFail
    ELSE IF i + 3 <= Len(s) /\ SubSeq(s, i, i + 3) = Chars("null")
         THEN [ok |-> TRUE, val |-> JNull, next |-> i + 4]
    ELSE IF IsDigit(s[i])
         THEN IF s[i] = "0" /\ i + 1 <= Len(s) /\ IsDigit(s[i + 1])
              THEN ParseFail
              ELSE ParseDigits(s, i, 0)
    ELSE ParseFail

\* the members of an object from position i (a key is expected there); a
\* repeated key keeps its last value, and nothing may follow the closing brace
RECURSIVE ParseMembers(_, _, _)
ParseMembers(s, i, acc) ==
    LET k == ParseString(s, i)
    IN  IF ~k.ok THEN ParseFail
        ELSE LET c == SkipWs(s, k.next)
             IN  IF c > Len(s) \/ s[c] # ":" THEN ParseFail
                 ELSE LET v == ParseValue(s, SkipWs(s, c + 1))
                      IN  IF ~v.ok THEN ParseFail
                          ELSE LET n == SkipWs(s, v.next)
                                   obj == (k.val :> v.val) @@ acc
                               IN  IF n > Len(s) THEN ParseFail
                                   ELSE IF s[n] = ","
                                        THEN ParseMembers(s, SkipWs(s, n + 1), obj)
                                   ELSE IF s[n] = "}" /\ SkipWs(s, n + 1) > Len(s)
                                        THEN [ok |-> TRUE, val |-> obj]
                                   ELSE ParseFail

EmptyObj == [k \in {} |-> JNull]

\* json.loads(txt) for a text that starts with "{": [ok, val] where val maps
\* the keys to their values; ok = FALSE stands for json.JSONDecodeError
json_loads(s) ==
    IF s = <<>> \/ s[1] # "{" THEN ParseFail
    ELSE LET i == SkipWs(s, 2)
         IN  IF i > Len(s) THEN ParseFail
             ELSE IF s[i] = "}"
                  THEN IF SkipWs(s, i + 1) > Len(s)
                       THEN [ok |-> TRUE, val |-> EmptyObj] ELSE ParseFail
             ELSE ParseMembers(s, i, EmptyObj)

\* dict.get(key): None for a missing key
DictGet(obj, key) == IF key \in DOMAIN obj THEN obj[key] ELSE JNull

\* Python truth of a JSON value: None, "" and 0 are false
Truthy(v) == (v.t = "str" /\ v.v # <<>>) \/ (v.t = "num" /\ v.v # 0)

\* a or b taking b whenever b is truthy
PyOrLast(a, b) == IF Truthy(b) THEN b ELSE a

\* a or b
PyOr(a, b) == IF Truthy(a) THEN a ELSE b

(***************************************************************************)
(* Output normalizer (src/main.py)                                         *)
(***************************************************************************)

\* the generic titles without the two-word ones
_GENERIC_TITLES_one_word == {Chars("untitled"), Chars("story")}

_GENERIC_TITLES ==
    {Chars("untitled"), Chars("story"), Chars("untitled story"), Chars("the story")}

\* the prompt length below which the prompt itself is the title
PromptTitleLimit == 60
\* how many leading words of the content make a title, and how many are needed
TitleWords == 10
MinTitleWords == 3
\* the length below which a first line can be a heading
HeadingLimit == 100

\* _synthesize_title taking a prompt of exactly the limit's length too
_synthesize_title_inclusive(prompt, content, genre) ==
    IF prompt # <<>> /\ Len(prompt) <= PromptTitleLimit
    THEN strip(prompt)
    ELSE LET words == Take(split(content), TitleWords)
         IN  IF content # <<>> /\ Len(words) >= MinTitleWords
             THEN join(<<" ">>, words) \o Chars("...")
             ELSE capitalize(genre) \o Chars(" Story")

\* _synthesize_title(prompt, content, genre)
_synthesize_title(prompt, content, genre) ==
    IF prompt # <<>> /\ Len(prompt) < PromptTitleLimit
    THEN strip(prompt)
    ELSE LET words == Take(split(content), TitleWords)
         IN  IF content # <<>> /\ Len(words) >= MinTitleWords
             THEN join(<<" ">>, words) \o Chars("...")
             ELSE capitalize(genre) \o Chars(" Story")

\* The backtick cannot be written in a string literal here; the character "~"
\* stands for it in every modelled text and is used for nothing else.
Backtick == "~"
Fence == <<Backtick, Backtick, Backtick>>

\* the fence pattern of line 106 matches (re.match, DOTALL and IGNORECASE):
\* the text opens and closes with a fence, at least one character between
FenceMatches(txt) ==
    Len(txt) >= 7 /\ startswith(txt, Fence) /\ endswith(txt, Fence)

\* a fence group that knows the tag in lower case only
FenceGroupLowerCaseTag(txt) ==
    LET n == Len(txt) - 3
    IN  IF n > 7 /\ SubSeq(txt, 4, 7) = Chars("json")
        THEN strip(SubSeq(txt, 8, n))
        ELSE strip(SubSeq(txt, 4, n))

\* fence.group(1).strip(): what lies between the fences, after the "json" tag
\* when the tag is there and is followed by at least one more character
FenceGroup(txt) ==
    LET n == Len(txt) - 3
    IN  IF n > 7 /\ lower(SubSeq(txt, 4, 7)) = Chars("json")
        THEN strip(SubSeq(txt, 8, n))
        ELSE strip(SubSeq(txt, 4, n))

\* lines 103-108: strip, then unwrap a fenced block
Unwrap(raw) ==
    LET txt == strip(raw)
    IN  IF FenceMatches(txt) THEN FenceGroup(txt) ELSE txt

\* lines 113-127: the (title, body) of a parsed object, or raised = TRUE when
\* .strip() is called on a value that is not a string (AttributeError)
FromObject(obj, txt, prompt, genre) ==
    LET t == PyOr(PyOr(DictGet(obj, Chars("title")), DictGet(obj, Chars("story_title"))),
                  JStr(<<>>))
        b == PyOr(PyOr(DictGet(obj, Chars("content")), DictGet(obj, Chars("story"))),
                  JStr(<<>>))
    IN  IF t.t # "str" \/ b.t # "str" THEN [raised |-> TRUE]
        ELSE LET title == strip(t.v)
                 body  == IF strip(b.v) = <<>> THEN txt ELSE strip(b.v)
             IN  [raised |-> FALSE,
                  out |-> <<IF title = <<>> \/ lower(title) \in _GENERIC_TITLES
                            THEN _synthesize_title(prompt, body, genre)
                            ELSE title,
                            body>>]

\* a heading test that knows the markdown heading only
HeadingLikeHashOnly(first) ==
    /\ Len(first) < HeadingLimit
    /\ startswith(first, <<"#">>)

\* line 137-138: the first line looks like a heading
HeadingLike(first) ==
    /\ Len(first) < HeadingLimit
    /\ \/ startswith(first, <<"#">>)
       \/ istitle(first)
       \/ startswith(lower(first), Chars("chapter"))
       \/ startswith(lower(first), Chars("the "))

\* lines 133-145: the plain-text path
FromPlainText(txt, prompt, genre) ==
    LET lines == NonBlank(splitlines(txt))
    IN  IF lines # <<>> /\ HeadingLike(strip(lines[1]))
        THEN LET cleaned   == StripHashes(strip(lines[1]))
                 remaining == strip(join(<<"\n">>, Tail(lines)))
                 content   == IF remaining = <<>> THEN txt ELSE remaining
             IN  <<IF cleaned = <<>> \/ lower(cleaned) \in _GENERIC_TITLES
                   THEN _synthesize_title(prompt, content, genre)
                   ELSE cleaned,
                   content>>
        ELSE <<_synthesize_title(prompt, txt, genre), txt>>

\* normalize_story_output(raw, prompt, genre) -> (title, content)
normalize_story_output(raw, prompt, genre) ==
    IF raw = <<>> THEN <<_synthesize_title(prompt, <<>>, genre), <<>>>>
    ELSE LET txt == Unwrap(raw)
             parsed == json_loads(txt)
             viaObj == FromObject(parsed.val, txt, prompt, genre)
         IN  IF startswith(txt, <<"{">>) /\ endswith(txt, <<"}">>)
                /\ parsed.ok /\ ~viaObj.raised
             THEN viaObj.out
             ELSE FromPlainText(txt, prompt, genre)

(***************************************************************************)
(* Image generation service (src/services/image_generation.py)             *)
(***************************************************************************)

\* sub in s
RECURSIVE ContainsFrom(_, _, _)
ContainsFrom(s, sub, i) ==
    IF i + Len(sub) - 1 > Len(s) THEN FALSE
    ELSE IF SubSeq(s, i, i + Len(sub) - 1) = sub THEN TRUE
    ELSE ContainsFrom(s, sub, i + 1)

Contains(s, sub) == ContainsFrom(s, sub, 1)

\* an exception of class cls; ContentPolicyError is a subclass of
\* ImageGenerationError, which is a subclass of Exception
Raise(cls, msg) == [raised |-> TRUE, cls |-> cls, msg |-> msg]
IsImageGenerationError(cls) == cls \in {"ImageGenerationError", "ContentPolicyError"}

\* lines 67-78, the answer to HTTP 400.  body.json is FALSE when the body is
\* not JSON; body.error is "dict" when the "error" member is an object,
\* "absent" when it is missing and "other" when it is anything else.
\* The try of lines 70-76 raises in both branches, the bare except of line 77
\* catches whatever was raised there and raises the generic error instead.
BadRequest(body) ==
    LET inTry ==
            IF ~body.json THEN Raise("ValueError", "not json")
            ELSE IF body.error = "other" THEN Raise("AttributeError", "get")
            ELSE LET error_message == IF body.error = "dict" THEN body.message ELSE <<>>
                 IN  IF Contains(lower(error_message), Chars("content policy"))
                     THEN Raise("ContentPolicyError", "Content policy violation detected")
                     ELSE Raise("ImageGenerationError", "Request error")
    IN  IF inTry.raised
        THEN Raise("ImageGenerationError", "Bad request - check story content")
        ELSE inTry

\* lines 64-118, the body of the try: post, status checks, download, save
TryBody(reply, style, size, quality) ==
    IF reply.post = "timeout" THEN Raise("TimeoutException", "post")
    ELSE IF reply.post = "network" THEN Raise("RequestError", "post")
    ELSE IF reply.status = 400 THEN BadRequest(reply.body)
    ELSE IF reply.status = 404 THEN Raise("ImageGenerationError", "deployment not found")
    ELSE IF reply.status = 401 THEN Raise("ImageGenerationError", "Authentication failed - check API key")
    ELSE IF reply.status # 200 THEN Raise("ImageGenerationError", "Image generation failed")
    ELSE IF ~reply.body.json THEN Raise("ValueError", "response.json()")
    ELSE IF ~reply.body.has_url THEN Raise("KeyError", "data")
    ELSE IF reply.download = "timeout" THEN Raise("TimeoutException", "get")
    ELSE IF reply.download = "network" THEN Raise("RequestError", "get")
    ELSE IF reply.download # "ok" THEN Raise("ImageGenerationError", "Failed to download image")
    ELSE IF ~reply.write_ok THEN Raise("OSError", "open")
    ELSE [raised |-> FALSE, style |-> style, size |-> size, quality |-> quality]

\* lines 120-128, the except clauses of the try, in their order
ExceptClauses(r) ==
    IF ~r.raised THEN r
    ELSE IF r.cls = "TimeoutException" THEN Raise("ImageGenerationError", "Request timed out")
    ELSE IF r.cls = "RequestError" THEN Raise("ImageGenerationError", "Network error")
    ELSE IF r.cls = "ContentPolicyError" THEN r
    ELSE Raise("ImageGenerationError", "Unexpected error occurred")

\* generate_story_image(story_text, style, size, quality) under the
\* configuration cfg and the provider's answers reply
generate_story_image(cfg, reply, style, size, quality) ==
    IF ~cfg.endpoint THEN Raise("ImageGenerationError", "Azure OpenAI endpoint not configured")
    ELSE IF ~cfg.api_key THEN Raise("ImageGenerationError", "Azure OpenAI API key not configured")
    ELSE IF ~cfg.deployment THEN Raise("ImageGenerationError", "DALL-E deployment name not configured")
    ELSE ExceptClauses(TryBody(reply, style, size, quality))

(***************************************************************************)
(* State                                                                   *)
(***************************************************************************)

VARIABLES
    call,           \* the function application under test: fn, args, done, out
    openai_client,  \* main.py: the completion client was constructed
    container,      \* main.py: the store's container client was constructed
    partition_key_path, \* the partition-key path the container was created with
    store,          \* the documents of the container
    files,          \* the files on disk, as <<directory, name>>
    next_uuid,      \* the source of uuid.uuid4()
    now,            \* the clock of datetime.utcnow()
    nreq,           \* the number of create and delete requests handled
    resp,           \* the response to the last request, and what happened in it
    environ,        \* os.environ: the value of each environment variable
    auth,           \* the AzureAuthService object and the credentials it made
    clients,        \* the client each service object holds, and its last use
    inflight        \* the DELETE requests in progress, with their local variables

vars == <<call, openai_client, container, partition_key_path, store, files, next_uuid, now,
          nreq, resp, environ, auth, clients, inflight>>
svcVars == <<openai_client, container, partition_key_path, store, files, next_uuid, now,
             nreq, resp, environ, auth, clients, inflight>>
authVars == <<environ, auth, clients>>

\* what the calls on auth_service and the service objects leave alone
idleVars == <<call, openai_client, container, partition_key_path, store, files,
              next_uuid, now, nreq, resp, inflight>>

\* Python values that may be missing: a key that is not in the document, None
PyAbsent == [t |-> "absent"]
PyNone == [t |-> "none"]
PyStr(v) == [t |-> "str", v |-> v]

(***************************************************************************)
(* Authentication (src/app/services/auth_service.py)                       *)
(***************************************************************************)

\* the variables that mark a production environment (lines 27-31)
ProductionIndicators ==
    {"AZURE_CLIENT_ID", "MSI_ENDPOINT", "IDENTITY_ENDPOINT", "WEBSITE_SITE_NAME",
     "CONTAINER_APP_NAME"}

KeyVariables == {"AZURE_OPENAI_KEY", "COSMOS_DB_KEY"}

EnvNames == ProductionIndicators \cup KeyVariables

\* os.getenv(name): None for a variable that is not set
getenv(name) == environ[name]

\* a detection that only looks at WEBSITE_SITE_NAME
_is_production_environment_site_only == Truthy(getenv("WEBSITE_SITE_NAME"))

\* AzureAuthService._is_production_environment (lines 23-32)
_is_production_environment == \E name \in ProductionIndicators : Truthy(getenv(name))

\* no AzureAuthService has been constructed; credentials are numbered from 1
\* and 0 stands for None
NoAuth ==
    [constructed |-> FALSE, is_production |-> FALSE, _async_credential |-> 0,
     made |-> 0, closed |-> {}, result |-> <<>>]

\* an environment with nothing set
EmptyEnviron == [name \in EnvNames |-> PyNone]

\* AzureAuthService.__init__ (lines 18-21): the mode is detected once
AzureAuthService ==
    /\ ~auth.constructed
    /\ auth' = [NoAuth EXCEPT !.constructed = TRUE,
                              !.is_production = _is_production_environment]
    /\ UNCHANGED <<environ, clients, idleVars>>

\* the (endpoint, key) a get_*_auth call returns, of which the key is kept,
\* next to the value the key variable has when the call is made
AuthResult(fn, key, configured) == <<[fn |-> fn, key |-> key, configured |-> configured]>>

\* get_openai_auth (lines 70-80)
get_openai_auth ==
    /\ auth.constructed
    /\ auth' = [auth EXCEPT !.result =
                   AuthResult("get_openai_auth",
                              IF auth.is_production THEN PyNone
                              ELSE getenv("AZURE_OPENAI_KEY"),
                              getenv("AZURE_OPENAI_KEY"))]
    /\ UNCHANGED <<environ, clients, idleVars>>

\* get_cosmos_auth (lines 82-92)
get_cosmos_auth ==
    /\ auth.constructed
    /\ auth' = [auth EXCEPT !.result =
                   AuthResult("get_cosmos_auth",
                              IF auth.is_production THEN PyNone
                              ELSE getenv("COSMOS_DB_KEY"),
                              getenv("COSMOS_DB_KEY"))]
    /\ UNCHANGED <<environ, clients, idleVars>>

\* the values the environment variables take
IndicatorValues == {PyNone, PyStr(<<>>), PyStr(Chars("x"))}
KeyValues == {PyNone, PyStr(Chars("k"))}

Environs ==
    {e \in [EnvNames -> IndicatorValues \cup KeyValues] :
        /\ \A name \in ProductionIndicators : e[name] \in IndicatorValues
        /\ \A name \in KeyVariables : e[name] \in KeyValues}

\* os.environ[name] = value, or del os.environ[name], as test_auth_modes.py
\* does around the construction
putenv(name, value) ==
    /\ environ[name] # value
    /\ environ' = [environ EXCEPT ![name] = value]
    /\ UNCHANGED <<auth, clients, idleVars>>

AuthIdle ==
    /\ environ = EmptyEnviron
    /\ auth = NoAuth
    /\ clients = <<>>
    /\ inflight = <<>>


(***************************************************************************)
(* Bounds and inputs of the function applications                          *)
(***************************************************************************)

\* how many whitespace characters are put around a fenced response
MaxPad == 1

Rep(c, n) == [i \in 1..n |-> c]

NoCall == [fn |-> "none", args |-> <<>>, done |-> TRUE, out |-> <<>>]

\* responses that are JSON objects, or nearly so
JsonTexts ==
    { Chars("{\"title\":\"The Lost Key\",\"content\":\"A key was lost.\"}"),
      Chars("{\"title\":\"Untitled\",\"content\":\"Once upon a time.\"}"),
      Chars("{\"title\":\"Untitled Story\",\"content\":\"  Once upon a time. \"}"),
      Chars("{\"title\":\"Untitled\",\"content\":7}"),
      Chars("{\"title\": \" The Story \", \"content\": \" Once.  \"}"),
      Chars("{ \"story_title\" : \"Moon\" ,\n \"story\" : \"It rose. We saw it.\" }"),
      Chars("{\"title\":\"A\",\"story_title\":\"B\",\"content\":\"C d e\",\"story\":\"F\"}"),
      Chars("{\"title\":\"\",\"story_title\":\"B\",\"content\":\"\",\"story\":\"F g\"}"),
      Chars("{\"title\":\"  \",\"story_title\":\"B\",\"content\":\" \",\"story\":\"F\"}"),
      Chars("{\"title\":\"Story\",\"title\":\"Dune\",\"content\":\"Sand.\"}"),
      Chars("{\"title\":\"Key\"}"),
      Chars("{\"title\":null,\"content\":\"a b c d e f g h i j k l\"}"),
      Chars("{\"title\":\"STORY\",\"content\":0,\"story\":null}"),
      Chars("{\"title\":5,\"content\":\"x\"}"),
      Chars("{\"title\":\"Key\",\"content\":7}"),
      Chars("{\"title\":\"Key\" \"content\":\"x\"}"),
      Chars("{\"title\":\"a\nb\",\"content\":\"x\"}"),
      Chars("{}") }

\* responses that are plain text
PlainTexts ==
    { Chars("# Chapter One\nIt was dark."),
      Chars("just plain prose with no structure at all here"),
      Chars("The End"),
      Chars("chapter one"),
      Chars("Hello World\n\n  next line  \nlast"),
      Chars("## Untitled\nOnce there was a fox."),
      Chars("the story\n"),
      Chars("###"),
      Chars("it was dark.\nThe End"),
      <<"#", " ">> \o Rep("a", HeadingLimit - 3),
      <<"#", " ">> \o Rep("a", HeadingLimit - 2) \o Chars("\nbody"),
      Chars(" \n "),
      <<>> }

Pads == {Rep(" ", n) : n \in 0..MaxPad} \cup {Rep("\n", n) : n \in 1..MaxPad}

\* a response wrapped in a fenced block, with or without the "json" tag
Fenced(t) ==
    { p \o Fence \o tag \o q \o t \o q \o Fence \o p :
        p \in Pads, q \in {<<>>, <<"\n">>, <<" ">>},
        tag \in {<<>>, Chars("json"), Chars("JSON"), Chars("Json")} }

FencedTexts ==
    { Chars("{\"title\":\"The Lost Key\",\"content\":\"A key was lost.\"}"),
      Chars("{\"title\":\"Untitled\",\"content\":\"Once upon a time.\"}"),
      Chars("{\"title\":\"Key\"}"),
      Chars("{\"title\":5,\"content\":\"x\"}"),
      Chars("{\"story_title\":\"Untitled\",\"story\":\" \"}"),
      Chars("{}"),
      Chars("The End"),
      Chars("x") }

RawTexts == JsonTexts \cup PlainTexts \cup UNION {Fenced(t) : t \in FencedTexts}

Prompts ==
    { <<>>, <<" ">>, Chars("x"), Chars(" short prompt "), Chars("short prompt"),
      Rep("p", PromptTitleLimit - 1), Rep("p", PromptTitleLimit) }

Genres == {Chars("general"), Chars("sci-fi"), Chars("HORROR"), <<>>}

\* the prompts and genres the normalizer is applied with
NormPrompts == {<<>>, <<" ">>, Chars("x"), Chars("short prompt"), Rep("p", PromptTitleLimit)}
NormGenres == {Chars("general"), Chars("HORROR")}

Contents ==
    { <<>>, Chars("one"), Chars("one two"), Chars(" one  two\nthree "),
      Chars("a b c d e f g h i j"), Chars("a b c d e f g h i j k") }

\* the image service's configuration and the provider's answers
ImageConfigs == [endpoint : BOOLEAN, api_key : BOOLEAN, deployment : BOOLEAN]

ErrorMessages ==
    { Chars("Your request was rejected by the Content Policy."),
      Chars("content policy"),
      Chars("Invalid size"),
      <<>> }

Bodies400 ==
    {[json |-> FALSE, error |-> "absent", message |-> <<>>, has_url |-> FALSE],
     [json |-> TRUE, error |-> "absent", message |-> <<>>, has_url |-> FALSE],
     [json |-> TRUE, error |-> "other", message |-> <<>>, has_url |-> FALSE]}
    \cup {[json |-> TRUE, error |-> "dict", message |-> m, has_url |-> FALSE] : m \in ErrorMessages}

Bodies200 ==
    {[json |-> FALSE, error |-> "absent", message |-> <<>>, has_url |-> FALSE],
     [json |-> TRUE, error |-> "absent", message |-> <<>>, has_url |-> FALSE],
     [json |-> TRUE, error |-> "absent", message |-> <<>>, has_url |-> TRUE]}

NoBody == [json |-> FALSE, error |-> "absent", message |-> <<>>, has_url |-> FALSE]

Reply(post, status, body, download, write_ok) ==
    [post |-> post, status |-> status, body |-> body, download |-> download,
     write_ok |-> write_ok]

ProviderReplies ==
    {Reply(p, 0, NoBody, "none", FALSE) : p \in {"timeout", "network"}}
    \cup {Reply("answered", 400, b, "none", FALSE) : b \in Bodies400}
    \cup {Reply("answered", st, NoBody, "none", FALSE) : st \in {401, 404, 429, 500}}
    \cup {Reply("answered", 200, b, "none", FALSE) : b \in Bodies200 \ {[json |-> TRUE, error |-> "absent", message |-> <<>>, has_url |-> TRUE]}}
    \cup {Reply("answered", 200, [json |-> TRUE, error |-> "absent", message |-> <<>>, has_url |-> TRUE], d, w) :
            d \in {"ok", "http_error", "timeout", "network"}, w \in BOOLEAN}

ImageStyles == {"digital-art"}
ImageSizes == {"1024x1024"}
ImageQualities == {"standard", "hd"}

(***************************************************************************)
(* The functions applied to drawn inputs                                   *)
(***************************************************************************)

NoResp == [handler |-> "none"]

ServiceIdle ==
    /\ openai_client = TRUE
    /\ container = TRUE
    /\ partition_key_path = "/id"
    /\ store = {}
    /\ files = {}
    /\ next_uuid = 1
    /\ now = 0
    /\ nreq = 0
    /\ AuthIdle
    /\ resp = NoResp

FnCalls ==
    {[fn |-> "normalize_story_output", args |-> <<r, p, g>>, done |-> FALSE, out |-> <<>>] :
        r \in RawTexts, p \in NormPrompts, g \in NormGenres}
    \cup {[fn |-> "_synthesize_title", args |-> <<p, c, g>>, done |-> FALSE, out |-> <<>>] :
        p \in Prompts, c \in Contents, g \in Genres}
    \cup {[fn |-> "generate_story_image", args |-> <<cfg, rep, q>>, done |-> FALSE, out |-> <<>>] :
        cfg \in ImageConfigs, rep \in ProviderReplies, q \in ImageQualities}

InitFn ==
    /\ call \in FnCalls
    /\ ServiceIdle

NormalizeCall ==
    /\ call.fn = "normalize_story_output" /\ ~call.done
    /\ call' = [call EXCEPT !.done = TRUE,
                            !.out = normalize_story_output(call.args[1], call.args[2], call.args[3])]
    /\ UNCHANGED svcVars

SynthesizeCall ==
    /\ call.fn = "_synthesize_title" /\ ~call.done
    /\ call' = [call EXCEPT !.done = TRUE,
                            !.out = _synthesize_title(call.args[1], call.args[2], call.args[3])]
    /\ UNCHANGED svcVars

ImageCall ==
    /\ call.fn = "generate_story_image" /\ ~call.done
    /\ \E style \in ImageStyles, size \in ImageSizes :
         call' = [call EXCEPT !.done = TRUE,
                              !.out = generate_story_image(call.args[1], call.args[2],
                                                           style, size, call.args[3])]
    /\ UNCHANGED svcVars

NextFn == NormalizeCall \/ SynthesizeCall \/ ImageCall

SpecFn == InitFn /\ [][NextFn]_vars

(***************************************************************************)
(* The request handlers                                                    *)
(***************************************************************************)

\* how many requests a behaviour handles
MaxRequests == 2

\* x or "" for an optional string
OrEmpty(x) == IF x.t = "str" THEN x.v ELSE <<>>

\* len(content): the characters counted instead of the words
WordCountChars(content) == Len(content)

\* len(content.split())
WordCount(content) == Len(split(content))

NoDoc == [t |-> "none"]

\* datetime values without a time zone: the second and the microsecond of an
\* instant; the date, hour and minute are the same for all instants of a
\* behaviour
datetime(second, microsecond) ==
    [second |-> second, microsecond |-> microsecond, utc |-> FALSE]

DatePrefix == Chars("T00:")

TwoDigits(n) == <<Digits[((n \div 10) % 10) + 1], Digits[(n % 10) + 1]>>
SixDigits(n) == [i \in 1..6 |-> Digits[((n \div (10^(6 - i))) % 10) + 1]]

\* an isoformat that writes whole seconds only
isoformat_seconds(dt) == DatePrefix \o TwoDigits(dt.second)

\* datetime.isoformat(): the fraction is written only when it is not zero
isoformat(dt) ==
    DatePrefix \o TwoDigits(dt.second)
    \o (IF dt.microsecond = 0 THEN <<>> ELSE <<".">> \o SixDigits(dt.microsecond))

\* the digits of s read as a number
RECURSIVE DigitsVal(_)
DigitsVal(s) ==
    IF s = <<>> THEN 0
    ELSE 10 * DigitsVal(SubSeq(s, 1, Len(s) - 1)) + DigitVal(s[Len(s)])

\* datetime.fromisoformat(s): the instant s names, or a ValueError; a
\* trailing "Z" is accepted by some interpreter versions only (accepts_z)
fromisoformat(s, accepts_z) ==
    LET n == Len(DatePrefix)
        body == IF s # <<>> /\ s[Len(s)] = "Z" THEN SubSeq(s, 1, Len(s) - 1) ELSE s
        zulu == body # s
        sec == SubSeq(body, n + 1, n + 2)
        frac == SubSeq(body, n + 4, Len(body))
        wellFormed ==
            /\ Len(body) \in {n + 2, n + 9}
            /\ SubSeq(body, 1, n) = DatePrefix
            /\ \A i \in 1..2 : IsDigit(sec[i])
            /\ Len(body) = n + 9 => body[n + 3] = "." /\ \A i \in 1..6 : IsDigit(frac[i])
    IN  IF wellFormed /\ (zulu => accepts_z)
        THEN [raised |-> FALSE,
              dt |-> [datetime(DigitsVal(sec),
                               IF Len(body) = n + 9 THEN DigitsVal(frac) ELSE 0)
                      EXCEPT !.utc = zulu]]
        ELSE [raised |-> TRUE, dt |-> datetime(0, 0)]

\* datetime.utcnow(): the clock ticks in half seconds
utcnow == datetime(now \div 2, (now % 2) * 500000)

\* the code points of the characters of a timestamp, in their order
TimestampChars == Chars("-.0123456789:TZ")
CodeRank(c) == CHOOSE i \in 1..Len(TimestampChars) : TimestampChars[i] = c

\* a < b for strings, as the store's ORDER BY compares them
StrLess(a, b) ==
    \E i \in 1..(Len(b)) :
        /\ \A j \in 1..(i - 1) : j <= Len(a) /\ a[j] = b[j]
        /\ \/ i = Len(a) + 1
           \/ i <= Len(a) /\ CodeRank(a[i]) < CodeRank(b[i])

\* an upsert that stamps the stored documents with the new document's time
UpsertRestamps(docs, doc) == {[d EXCEPT !.created_at = doc.created_at] : d \in docs} \cup {doc}

\* container.upsert_item(doc): the document replaces the one with its id
Upsert(docs, doc) == {d \in docs : d.id # doc.id} \cup {doc}

\* what the completion API does in a request: it raises, or answers with text
CompletionRaises == [raised |-> TRUE, raw |-> <<>>]
CompletionAnswers(raw) == [raised |-> FALSE, raw |-> raw]

SvcRawOutputs ==
    { Chars("{\"title\":\"Moon\",\"content\":\" It rose. We saw it. \"}"),
      Chars("Untitled\nOnce there was a fox."),
      <<>> }

Completions == {CompletionRaises} \cup {CompletionAnswers(r) : r \in SvcRawOutputs}

SvcPrompts == {Chars("a fox"), <<>>}
SvcGenres == {Chars("horror")}
SvcDescriptions == {PyNone, PyStr(Chars("a red fox"))}

\* the answers of the image provider that the handlers are run against
SvcReplies ==
    { Reply("answered", 400, [json |-> TRUE, error |-> "dict",
                              message |-> Chars("content policy"), has_url |-> FALSE],
            "none", FALSE),
      Reply("answered", 401, NoBody, "none", FALSE),
      Reply("answered", 200, [json |-> TRUE, error |-> "absent", message |-> <<>>,
                              has_url |-> TRUE], "ok", TRUE) }

SvcImageConfig == [endpoint |-> TRUE, api_key |-> TRUE, deployment |-> TRUE]

\* the response to a request, with what happened while it was handled:
\* completion is "not_called", "raised" or "ok"; upsert is "not_reached",
\* "skipped" (no container), "raised" or "ok"; image_requested is the
\* generate_image flag the client sent and provider the answer the image
\* provider gives in this request
Response(handler, status, story, generated_image, completion, upsert, image_requested, provider) ==
    [handler |-> handler, status |-> status, success |-> (status = 200), story |-> story,
     generated_image |-> generated_image, story_id |-> 0, deleted_files |-> {},
     attempted |-> <<>>, remove_failed |-> {},
     query |-> PyAbsent, query_failed |-> FALSE, stories |-> PyAbsent, total |-> PyAbsent,
     stats |-> PyAbsent, services |-> PyAbsent,
     completion |-> completion, upsert |-> upsert,
     image_requested |-> image_requested, provider |-> provider]

NoReply == Reply("none", 0, NoBody, "none", FALSE)

\* a failure answered with status 200 and no story
HTTPExceptionAnswered200(handler, completion, upsert, image_requested, provider) ==
    Response(handler, 200, NoDoc, PyNone, completion, upsert, image_requested, provider)

\* raise HTTPException(status_code=500, ...): the failed response of a handler
HTTPException500(handler, completion, upsert, image_requested, provider) ==
    Response(handler, 500, NoDoc, PyNone, completion, upsert, image_requested, provider)

\* the story_doc of the text handlers of main.py (lines 203-214, 457-468)
TextDoc(id, prompt, genre, title, content, created_at) ==
    [id |-> id, story_type |-> "text", prompt |-> PyStr(prompt),
     image_filename |-> PyAbsent, image_description |-> PyAbsent,
     genre |-> genre, tone |-> PyStr(Chars("neutral")), length |-> PyStr(Chars("medium")),
     content |-> content, title |-> title, word_count |-> WordCount(content),
     created_at |-> created_at,
     generated_image_filename |-> PyAbsent, generated_image_meta |-> PyAbsent]

\* the story_doc of the image handlers of main.py (lines 265-277, 542-554)
ImageDoc(id, image_filename, image_description, theme, title, content, created_at) ==
    [id |-> id, story_type |-> "image", prompt |-> PyAbsent,
     image_filename |-> image_filename, image_description |-> image_description,
     genre |-> theme, tone |-> PyStr(Chars("creative")), length |-> PyStr(Chars("medium")),
     content |-> content, title |-> title, word_count |-> WordCount(content),
     created_at |-> created_at,
     generated_image_filename |-> PyAbsent, generated_image_meta |-> PyAbsent]

\* a persist step whose failed upsert has written the document all the same
PersistHalfWritten(doc, upsert_ok) ==
    IF ~container THEN [docs |-> store, upsert |-> "skipped"]
    ELSE IF upsert_ok THEN [docs |-> Upsert(store, doc), upsert |-> "ok"]
    ELSE [docs |-> Upsert(store, doc), upsert |-> "raised"]

\* lines 216-223 (and 280-286, 494-500, 580-586): persist when there is a
\* container; an exception of upsert_item is logged and swallowed
Persist(doc, upsert_ok) ==
    IF ~container THEN [docs |-> store, upsert |-> "skipped"]
    ELSE IF upsert_ok THEN [docs |-> Upsert(store, doc), upsert |-> "ok"]
    ELSE [docs |-> store, upsert |-> "raised"]

\* POST /api/stories, the handler of lines 190-226; upsert_ok is whether
\* container.upsert_item returns rather than raises
create_story_190(prompt, genre, completion) ==
    /\ nreq < MaxRequests
    /\ nreq' = nreq + 1
    /\ UNCHANGED <<call, environ, auth, clients, inflight, openai_client, container, partition_key_path, files>>
    /\ IF ~openai_client
       THEN \* generate_story_text raises ValueError (line 155)
            /\ resp' = HTTPException500("create_story_190", "not_called", "not_reached",
                                        FALSE, NoReply)
            /\ UNCHANGED <<store, next_uuid, now>>
       ELSE IF completion.raised
       THEN /\ resp' = HTTPException500("create_story_190", "raised", "not_reached",
                                        FALSE, NoReply)
            /\ UNCHANGED <<store, next_uuid, now>>
       ELSE \E tc \in {normalize_story_output(completion.raw, prompt, genre)} :
            \E created_at \in {isoformat(utcnow) \o <<"Z">>} :
            \E doc \in {TextDoc(next_uuid, prompt, genre, tc[1], tc[2], created_at)} :
            \E upsert_ok \in BOOLEAN :
            \E p \in {Persist(doc, upsert_ok)} :
                /\ store' = p.docs
                /\ next_uuid' = next_uuid + 1
                /\ now' = now + 1
                /\ resp' = Response("create_story_190", 200, doc, PyNone,
                                    "ok", p.upsert, FALSE, NoReply)

\* a file name built from uuid n
PyFile(n) == [t |-> "file", n |-> n]

\* POST /api/stories/image, the handler of lines 228-289
create_story_from_image_229(image_description, theme, completion) ==
    /\ nreq < MaxRequests
    /\ nreq' = nreq + 1
    /\ UNCHANGED <<call, environ, auth, clients, inflight, openai_client, container, partition_key_path>>
    \* lines 239-244: the upload is written before anything else
    /\ files' = files \cup {<<"uploads", next_uuid>>}
    /\ IF ~openai_client \/ completion.raised
       THEN \* openai_client is None (AttributeError) or the call raises
            /\ resp' = HTTPException500("create_story_from_image_229",
                                        IF openai_client THEN "raised" ELSE "not_called",
                                        "not_reached", FALSE, NoReply)
            /\ next_uuid' = next_uuid + 1
            /\ UNCHANGED <<store, now>>
       ELSE \E tc \in {normalize_story_output(completion.raw, OrEmpty(image_description),
                                                 theme)} :
            \E created_at \in {isoformat(utcnow) \o <<"Z">>} :
            \E doc \in {ImageDoc(next_uuid + 1, PyFile(next_uuid), image_description, theme,
                                  tc[1], tc[2], created_at)} :
            \E upsert_ok \in BOOLEAN :
            \E p \in {Persist(doc, upsert_ok)} :
                /\ store' = p.docs
                /\ next_uuid' = next_uuid + 2
                /\ now' = now + 1
                /\ resp' = Response("create_story_from_image_229", 200, doc, PyNone,
                                    "ok", p.upsert, FALSE, NoReply)

\* the fields of the request model StoryCreateRequest
StoryCreateRequestFields == {"prompt", "genre", "tone", "length"}

\* main.py imports generate_story_image, ContentPolicyError and
\* ImageGenerationError from the image service: it does not, the three names
\* are unbound in the module and using one raises NameError
ImageServiceImported == FALSE

\* lines 469-493 and 555-579: the illustration step.  raised = TRUE is an
\* exception that leaves the step (NameError for the unbound names, also out
\* of the except clauses that name them); otherwise doc is the story_doc
\* after the step and meta the generated_image of the response.
Illustrate(doc, requested, reply, style, size, quality, uuid) ==
    IF ~requested
    THEN [raised |-> FALSE, doc |-> doc, meta |-> PyNone, wrote |-> FALSE]
    ELSE IF ~ImageServiceImported
    THEN [raised |-> TRUE, doc |-> doc, meta |-> PyNone, wrote |-> FALSE]
    ELSE LET r == generate_story_image(SvcImageConfig, reply, style, size, quality)
         IN  IF ~r.raised
             THEN [raised |-> FALSE,
                   doc |-> [doc EXCEPT !.generated_image_filename = PyFile(uuid),
                                       !.generated_image_meta =
                                           [t |-> "meta", style |-> r.style, size |-> r.size,
                                            quality |-> r.quality]],
                   meta |-> [t |-> "image", filename |-> PyFile(uuid), style |-> r.style,
                             size |-> r.size, quality |-> r.quality],
                   wrote |-> TRUE]
             ELSE [raised |-> FALSE, doc |-> doc,
                   meta |-> [t |-> "error",
                             error_type |-> IF r.cls = "ContentPolicyError" THEN "content_policy"
                                            ELSE IF IsImageGenerationError(r.cls)
                                                 THEN "generation_error"
                                            ELSE "unexpected_error"],
                   wrote |-> FALSE]

\* what the image provider answers in a request that asks for an illustration
RepliesFor(generate_image) == IF generate_image THEN SvcReplies ELSE {NoReply}

\* POST /api/stories, the handler of lines 445-504
create_story_445(prompt, genre, completion, generate_image) ==
    /\ nreq < MaxRequests
    /\ nreq' = nreq + 1
    /\ UNCHANGED <<call, environ, auth, clients, inflight, openai_client, container, partition_key_path>>
    /\ IF ~openai_client \/ completion.raised
       THEN /\ resp' = HTTPException500("create_story_445",
                                        IF openai_client THEN "raised" ELSE "not_called",
                                        "not_reached", generate_image, NoReply)
            /\ UNCHANGED <<store, files, next_uuid, now>>
       ELSE \E tc \in {normalize_story_output(completion.raw, prompt, genre)} :
            \E created_at \in {isoformat(utcnow) \o <<"Z">>} :
            \E doc \in {TextDoc(next_uuid, prompt, genre, tc[1], tc[2], created_at)} :
            \E reply \in RepliesFor(generate_image) :
                IF "generate_image" \notin StoryCreateRequestFields
                THEN \* line 470: req.generate_image raises AttributeError
                     /\ resp' = HTTPException500("create_story_445", "ok", "not_reached",
                                                 generate_image, reply)
                     /\ next_uuid' = next_uuid + 1
                     /\ now' = now + 1
                     /\ UNCHANGED <<store, files>>
                ELSE \E style \in ImageStyles, size \in ImageSizes, quality \in ImageQualities :
                     \E ill \in {Illustrate(doc, generate_image, reply, style, size, quality,
                                            next_uuid + 1)} :
                     \E upsert_ok \in BOOLEAN :
                     \E p \in {Persist(ill.doc, upsert_ok)} :
                           /\ next_uuid' = next_uuid + 2
                           /\ now' = now + 1
                           /\ IF ill.raised
                              THEN /\ resp' = HTTPException500("create_story_445", "ok",
                                                               "not_reached", generate_image,
                                                               reply)
                                   /\ UNCHANGED <<store, files>>
                              ELSE /\ store' = p.docs
                                   /\ files' = IF ill.wrote
                                               THEN files \cup {<<"generated", next_uuid + 1>>}
                                               ELSE files
                                   /\ resp' = Response("create_story_445", 200, ill.doc, ill.meta,
                                                       "ok", p.upsert, generate_image, reply)

\* POST /api/stories/image, the handler of lines 506-590
create_story_from_image_506(image_description, theme, completion, generate_image) ==
    /\ nreq < MaxRequests
    /\ nreq' = nreq + 1
    /\ UNCHANGED <<call, environ, auth, clients, inflight, openai_client, container, partition_key_path>>
    /\ IF ~openai_client \/ completion.raised
       THEN /\ resp' = HTTPException500("create_story_from_image_506",
                                        IF openai_client THEN "raised" ELSE "not_called",
                                        "not_reached", generate_image, NoReply)
            /\ files' = files \cup {<<"uploads", next_uuid>>}
            /\ next_uuid' = next_uuid + 1
            /\ UNCHANGED <<store, now>>
       ELSE \E tc \in {normalize_story_output(completion.raw, OrEmpty(image_description),
                                                 theme)} :
            \E created_at \in {isoformat(utcnow) \o <<"Z">>} :
            \E doc \in {ImageDoc(next_uuid + 1, PyFile(next_uuid), image_description, theme,
                                  tc[1], tc[2], created_at)} :
            \E reply \in RepliesFor(generate_image) :
            \E style \in ImageStyles, size \in ImageSizes, quality \in ImageQualities :
            \E ill \in {Illustrate(doc, generate_image, reply, style, size, quality,
                                    next_uuid + 2)} :
            \E upsert_ok \in BOOLEAN :
            \E p \in {Persist(ill.doc, upsert_ok)} :
                  /\ next_uuid' = next_uuid + 3
                  /\ now' = now + 1
                  /\ IF ill.raised
                     THEN /\ resp' = HTTPException500("create_story_from_image_506", "ok",
                                                      "not_reached", generate_image, reply)
                          /\ files' = files \cup {<<"uploads", next_uuid>>}
                          /\ UNCHANGED store
                     ELSE /\ store' = p.docs
                          /\ files' = files \cup {<<"uploads", next_uuid>>}
                                        \cup (IF ill.wrote THEN {<<"generated", next_uuid + 2>>}
                                              ELSE {})
                          /\ resp' = Response("create_story_from_image_506", 200, ill.doc,
                                              ill.meta, "ok", p.upsert, generate_image, reply)

\* str.strip(c) for one character c
StripChar(s, c) ==
    LET keep == {i \in 1..Len(s) : s[i] # c}
    IN  IF keep = {} THEN <<>> ELSE SubSeq(s, SetMin(keep), SetMax(keep))

\* OpenAIService.generate_title: the answer stripped of whitespace and of
\* surrounding quotes, "Untitled Story" when the call raises
generate_title(answer) ==
    IF answer.raised THEN Chars("Untitled Story")
    ELSE StripChar(StripChar(strip(answer.raw), "\""), "'")

TitleAnswers == {CompletionRaises, CompletionAnswers(Chars(" \"Moon\" "))}

\* a Story of app/models.py; created_at is a datetime
Story(id, title, content, genre, prompt, image_filename, image_description, story_type, created_at, word_count) ==
    [id |-> id, title |-> title, content |-> content, genre |-> genre, prompt |-> prompt,
     image_filename |-> image_filename, image_description |-> image_description,
     story_type |-> story_type, created_at |-> created_at, word_count |-> word_count]

\* the item CosmosService.save_story writes for a Story (lines 89-100)
story_dict(story) ==
    [id |-> story.id, story_type |-> story.story_type, prompt |-> story.prompt,
     image_filename |-> story.image_filename,
     image_description |-> story.image_description,
     genre |-> story.genre, tone |-> PyAbsent, length |-> PyAbsent,
     content |-> story.content, title |-> story.title, word_count |-> story.word_count,
     created_at |-> isoformat(story.created_at),
     generated_image_filename |-> PyAbsent, generated_image_meta |-> PyAbsent]

\* the document saved for the Story a route handler builds: its word count
\* is len(story_content.split())
SavedDoc(id, title, content, genre, prompt, image_filename, image_description, story_type, created_at) ==
    story_dict(Story(id, title, content, genre, prompt, image_filename, image_description,
                     story_type, created_at, WordCount(content)))

\* POST /api/stories of the routes package (app/routes/stories.py, generate_story)
generate_story(prompt, genre, completion, title_answer, save_ok) ==
    /\ nreq < MaxRequests
    /\ nreq' = nreq + 1
    /\ UNCHANGED <<call, environ, auth, clients, inflight, openai_client, container, partition_key_path, files>>
    /\ IF completion.raised
       THEN /\ resp' = HTTPException500("generate_story",
                                "raised", "not_reached", FALSE, NoReply)
            /\ UNCHANGED <<store, next_uuid, now>>
       ELSE \E doc \in {SavedDoc(next_uuid, generate_title(title_answer),
                                  strip(completion.raw),
                                  IF genre = <<>> THEN Chars("general") ELSE genre,
                                  PyStr(prompt), PyNone, PyNone, "text", utcnow)} :
                /\ next_uuid' = next_uuid + 1
                /\ now' = now + 1
                /\ IF save_ok
                   THEN /\ store' = Upsert(store, doc)
                        /\ resp' = Response("generate_story", 200, doc, PyNone,
                                            "ok", "ok", FALSE, NoReply)
                   ELSE \* save_story raises and the handler answers 500
                        /\ UNCHANGED store
                        /\ resp' = HTTPException500("generate_story",
                                            "ok", "raised", FALSE, NoReply)

\* POST /api/stories/image of the routes package (generate_story_from_image)
generate_story_from_image(is_image, image_description, theme, completion, title_answer, save_ok) ==
    /\ nreq < MaxRequests
    /\ nreq' = nreq + 1
    /\ UNCHANGED <<call, environ, auth, clients, inflight, openai_client, container, partition_key_path>>
    /\ IF ~is_image
       THEN \* lines 75-79: the content type is not image/*
            /\ resp' = Response("generate_story_from_image", 400, NoDoc, PyNone,
                                "not_called", "not_reached", FALSE, NoReply)
            /\ UNCHANGED <<store, files, next_uuid, now>>
       ELSE IF completion.raised
       THEN \* lines 136-143: the upload written at lines 91-93 is removed
            /\ resp' = HTTPException500("generate_story_from_image",
                                "raised", "not_reached", FALSE, NoReply)
            /\ files' = files \ {<<"uploads", next_uuid>>}
            /\ next_uuid' = next_uuid + 1
            /\ UNCHANGED <<store, now>>
       ELSE \E doc \in {SavedDoc(next_uuid + 1, generate_title(title_answer),
                                  strip(completion.raw), theme, PyNone, PyFile(next_uuid),
                                  image_description, "image", utcnow)} :
                /\ next_uuid' = next_uuid + 2
                /\ now' = now + 1
                /\ IF save_ok
                   THEN /\ store' = Upsert(store, doc)
                        /\ files' = files \cup {<<"uploads", next_uuid>>}
                        /\ resp' = Response("generate_story_from_image", 200, doc, PyNone,
                                            "ok", "ok", FALSE, NoReply)
                   ELSE /\ UNCHANGED store
                        /\ files' = files \ {<<"uploads", next_uuid>>}
                        /\ resp' = HTTPException500("generate_story_from_image",
                                            "ok", "raised", FALSE, NoReply)

\* the file a document's field names, if it names one
FileOf(dir, field) == IF field.t = "file" THEN {<<dir, field.n>>} ELSE {}

\* the partition-key paths a container may have been created with: the one
\* CosmosService creates its container with, and another one
PartitionKeyPaths == {"/id", "/genre"}

\* partition-key values: a story id, or the text of a field
PkId(id) == [t |-> "id", n |-> id]
PkText(v) == [t |-> "text", v |-> v]

\* the partition-key value the container files document d under
PartitionKeyOf(d) == IF partition_key_path = "/id" THEN PkId(d.id) ELSE PkText(d.genre)

\* container.read_item(item, partition_key): the documents it finds; it
\* raises when there is none
read_item(item, partition_key) ==
    {d \in store : d.id = item /\ PartitionKeyOf(d) = partition_key}

\* a delete_item that leaves the document where it is
delete_item_noop(item, partition_key) == store

\* container.delete_item(item, partition_key): the documents left
delete_item(item, partition_key) ==
    {d \in store : ~(d.id = item /\ PartitionKeyOf(d) = partition_key)}

\* the response of a delete request; attempted lists the partition-key values
\* the request has called the container with: the story id, once there is a
\* container (lines 317 and 617)
DeleteResponse(handler, status, story_id, deleted_files) ==
    [Response(handler, status, NoDoc, PyNone, "not_called", "not_reached", FALSE, NoReply)
     EXCEPT !.story_id = story_id, !.deleted_files = deleted_files,
            !.attempted = IF status = 503 THEN <<>> ELSE <<PkId(story_id)>>]

\* a removal that also takes and reports the files on which os.remove raises
RemoveFilesAll(named, remove_ok) ==
    [removed |-> named \cap files, failed |-> (named \cap files) \ remove_ok]

\* a removal that is undone: no file is taken
RemoveFilesKept(named, remove_ok) ==
    [removed |-> {}, failed |-> (named \cap files) \ remove_ok]

\* lines 624-643: of the files a record names, those that exist are removed
\* unless os.remove raises; removed are the ones appended to deleted_files,
\* failed the ones whose failure is logged
RemoveFiles(named, remove_ok) ==
    [removed |-> named \cap files \cap remove_ok, failed |-> (named \cap files) \ remove_ok]

\* DELETE /api/stories/{story_id}, the handler of lines 306-356; remove_ok is
\* the set of files os.remove succeeds on, delete_ok is delete_item succeeding
delete_story_306(story_id, remove_ok, delete_ok) ==
    /\ nreq < MaxRequests
    /\ nreq' = nreq + 1
    /\ UNCHANGED <<call, environ, auth, clients, inflight, openai_client, container, partition_key_path, next_uuid, now>>
    /\ IF ~container
       THEN /\ resp' = DeleteResponse("delete_story_306", 503, story_id, {})
            /\ UNCHANGED <<store, files>>
       ELSE IF read_item(story_id, PkId(story_id)) = {}
       THEN /\ resp' = DeleteResponse("delete_story_306", 404, story_id, {})
            /\ UNCHANGED <<store, files>>
       ELSE \E story \in read_item(story_id, PkId(story_id)) :
            \E rm \in {RemoveFiles(FileOf("uploads", story.image_filename), remove_ok)} :
                /\ files' = files \ rm.removed
                /\ IF delete_ok
                   THEN /\ store' = delete_item(story_id, PkId(story_id))
                        /\ resp' = [DeleteResponse("delete_story_306", 200, story_id,
                                                   rm.removed)
                                    EXCEPT !.remove_failed = rm.failed]
                   ELSE /\ UNCHANGED store
                        /\ resp' = [DeleteResponse("delete_story_306", 500, story_id, {})
                                    EXCEPT !.remove_failed = rm.failed]

\* DELETE /api/stories/{story_id}, the handler of lines 607-657
delete_story_607(story_id, remove_ok, delete_ok) ==
    /\ nreq < MaxRequests
    /\ nreq' = nreq + 1
    /\ UNCHANGED <<call, environ, auth, clients, inflight, openai_client, container, partition_key_path, next_uuid, now>>
    /\ IF ~container
       THEN /\ resp' = DeleteResponse("delete_story_607", 503, story_id, {})
            /\ UNCHANGED <<store, files>>
       ELSE IF read_item(story_id, PkId(story_id)) = {}
       THEN /\ resp' = DeleteResponse("delete_story_607", 404, story_id, {})
            /\ UNCHANGED <<store, files>>
       ELSE \E story \in read_item(story_id, PkId(story_id)) :
            \E rm \in {RemoveFiles(FileOf("uploads", story.image_filename)
                                     \cup FileOf("generated", story.generated_image_filename),
                                     remove_ok)} :
                /\ files' = files \ rm.removed
                /\ IF delete_ok
                   THEN /\ store' = delete_item(story_id, PkId(story_id))
                        /\ resp' = [DeleteResponse("delete_story_607", 200, story_id,
                                                   rm.removed)
                                    EXCEPT !.remove_failed = rm.failed]
                   ELSE /\ UNCHANGED store
                        /\ resp' = [DeleteResponse("delete_story_607", 500, story_id, {})
                                    EXCEPT !.remove_failed = rm.failed]

(***************************************************************************)
(* Reading the store                                                       *)
(***************************************************************************)

PyInt(n) == [t |-> "int", n |-> n]
PyList(q) == [t |-> "list", v |-> q]

\* the orders in which a query with ORDER BY c.created_at DESC may return the
\* documents: equal timestamps come in any order
OrderByCreatedAtDesc(docs) ==
    {q \in [1..Cardinality(docs) -> docs] :
        /\ \A i, j \in DOMAIN q : i # j => q[i] # q[j]
        /\ \A i, j \in DOMAIN q : i < j => ~StrLess(q[i].created_at, q[j].created_at)}

\* OFFSET offset LIMIT limit of a result
OffsetLimit(q, offset, limit) ==
    SubSeq(q, offset + 1, IF offset + limit < Len(q) THEN offset + limit ELSE Len(q))

\* the query parameters of a list request: the client may send limit, offset
\* and skip
ListQuery(limit, offset, skip) == [limit |-> limit, offset |-> offset, skip |-> skip]

\* the response of a read request
ReadResponse(handler, status, success) ==
    [Response(handler, status, NoDoc, PyNone, "not_called", "not_reached", FALSE, NoReply)
     EXCEPT !.success = success]

\* GET /api/stories, the handler of main.py, lines 291-304; its parameters
\* are limit and skip, a query parameter named offset is not read; query_ok is
\* whether container.query_items returns rather than raises
get_stories_291(query, query_ok) ==
    /\ UNCHANGED <<call, environ, auth, clients, inflight, openai_client, container, partition_key_path, store, files,
                   next_uuid, now, nreq>>
    /\ IF ~container
       THEN resp' = [ReadResponse("get_stories_291", 200, TRUE)
                     EXCEPT !.query = query, !.stories = PyList(<<>>)]
       ELSE IF query_ok
       THEN \E items \in OrderByCreatedAtDesc(store) :
                resp' = [ReadResponse("get_stories_291", 200, TRUE)
                         EXCEPT !.query = query,
                                !.stories = PyList(OffsetLimit(items, query.skip, query.limit))]
       ELSE resp' = [ReadResponse("get_stories_291", 200, FALSE)
                     EXCEPT !.query = query, !.query_failed = TRUE]

RECURSIVE SumWordCount(_)
\* sum(int(i.get("word_count") or 0) for i in items)
SumWordCount(items) ==
    IF items = {} THEN 0
    ELSE LET i == CHOOSE x \in items : TRUE
         IN  i.word_count + SumWordCount(items \ {i})

\* an average that rounds up
AvgWordsCeil(total_words, total) ==
    IF total # 0 THEN (total_words + total - 1) \div total ELSE 0

\* int(total_words / total) if total else 0
AvgWords(total_words, total) == IF total # 0 THEN total_words \div total ELSE 0

Stats(total, text, image, avg_words) ==
    [t |-> "stats", total |-> total, text |-> text, image |-> image, avg_words |-> avg_words]

\* GET /api/stories/stats, the handler of main.py, lines 358-383 (the one of
\* lines 659-683 has the same body)
story_stats(query_ok) ==
    /\ UNCHANGED <<call, environ, auth, clients, inflight, openai_client, container, partition_key_path, store, files,
                   next_uuid, now, nreq>>
    /\ IF ~container
       THEN resp' = [ReadResponse("story_stats", 200, TRUE) EXCEPT !.stats = Stats(0, 0, 0, 0)]
       ELSE IF query_ok
       THEN resp' = [ReadResponse("story_stats", 200, TRUE)
                     EXCEPT !.stats =
                        Stats(Cardinality(store),
                              Cardinality({i \in store : i.story_type = "text"}),
                              Cardinality({i \in store : i.story_type = "image"}),
                              AvgWords(SumWordCount(store), Cardinality(store)))]
       ELSE resp' = [ReadResponse("story_stats", 200, FALSE) EXCEPT !.query_failed = TRUE]

\* item.get(key): None for a key the item does not have
ItemGet(x) == IF x.t = "absent" THEN PyNone ELSE x

\* the Story built from an item (cosmos_service.py, lines 119-131 and
\* 157-168); fromisoformat may raise
StoryOfItem(item, accepts_z) ==
    LET parsed == fromisoformat(item.created_at, accepts_z)
    IN  [raised |-> parsed.raised,
         story |-> Story(item.id, item.title, item.content, item.genre,
                         ItemGet(item.prompt), ItemGet(item.image_filename),
                         ItemGet(item.image_description), item.story_type,
                         parsed.dt, item.word_count)]

\* CosmosService.get_story (lines 110-134): None on any exception
get_story(story_id, read_ok, accepts_z) ==
    IF ~read_ok \/ read_item(story_id, PkId(story_id)) = {} THEN PyNone
    ELSE LET item == CHOOSE d \in read_item(story_id, PkId(story_id)) : TRUE
             built == StoryOfItem(item, accepts_z)
         IN  IF built.raised THEN PyNone ELSE [t |-> "story", v |-> built.story]

\* CosmosService.get_stories (lines 136-175) when the ordered query returns
\* items: the page of stories and the count of all documents, or an exception
get_stories(limit, offset, query_ok, accepts_z, items) ==
    LET page == OffsetLimit(items, offset, limit)
        built == [i \in DOMAIN page |-> StoryOfItem(page[i], accepts_z)]
    IN  IF ~query_ok \/ \E i \in DOMAIN built : built[i].raised
        THEN [raised |-> TRUE, stories |-> <<>>, total |-> 0]
        ELSE [raised |-> FALSE, stories |-> [i \in DOMAIN built |-> built[i].story],
              total |-> Cardinality(store)]

\* GET /stories of the routes package (app/routes/stories.py, lines 145-163)
get_stories_route(query, query_ok, accepts_z) ==
    /\ UNCHANGED <<call, environ, auth, clients, inflight, openai_client, container, partition_key_path, store, files,
                   next_uuid, now, nreq>>
    /\ \E items \in OrderByCreatedAtDesc(store) :
       \E r \in {get_stories(query.limit, query.offset, query_ok, accepts_z, items)} :
           IF r.raised
           THEN resp' = [ReadResponse("get_stories_route", 500, FALSE)
                         EXCEPT !.query = query, !.query_failed = ~query_ok]
           ELSE resp' = [ReadResponse("get_stories_route", 200, TRUE)
                         EXCEPT !.query = query, !.stories = PyList(r.stories),
                                !.total = PyInt(r.total)]

\* GET /stories/{story_id} of the routes package (lines 165-190)
get_story_route(story_id, read_ok, accepts_z) ==
    /\ UNCHANGED <<call, environ, auth, clients, inflight, openai_client, container, partition_key_path, store, files,
                   next_uuid, now, nreq>>
    /\ \E story \in {get_story(story_id, read_ok, accepts_z)} :
           IF story = PyNone
           THEN resp' = [ReadResponse("get_story_route", 404, FALSE)
                         EXCEPT !.story_id = story_id]
           ELSE resp' = [ReadResponse("get_story_route", 200, TRUE)
                         EXCEPT !.story_id = story_id, !.story = story.v]

\* the text of the exception AsyncAzureOpenAI raises without credentials
MissingCredentials == Chars("Missing credentials")

\* "healthy", or f"unhealthy: {str(e)}" when the try block raised
ServiceStatus(raised, e) ==
    IF raised THEN Chars("unhealthy: ") \o e ELSE Chars("healthy")

\* GET /health (app/routes/health.py, lines 12-40).  CosmosService() raises
\* nothing and both check_connection methods return False instead of raising,
\* and the value they return is not read; OpenAIService() raises when the
\* client is not configured
health_check(cosmos_reachable, openai_configured, openai_reachable) ==
    /\ UNCHANGED <<call, environ, auth, clients, inflight, openai_client, container, partition_key_path, store, files,
                   next_uuid, now, nreq>>
    /\ \E cosmos_db \in {ServiceStatus(FALSE, <<>>)} :
       \E azure_openai \in {ServiceStatus(~openai_configured, MissingCredentials)} :
           resp' = [ReadResponse("health_check", 200, TRUE)
                    EXCEPT !.services =
                       [t |-> "services",
                        cosmos_db |-> cosmos_db,
                        azure_openai |-> azure_openai,
                        status |-> IF \A st \in {cosmos_db, azure_openai} :
                                         Contains(st, Chars("healthy"))
                                   THEN Chars("healthy") ELSE Chars("unhealthy"),
                        cosmos_reachable |-> cosmos_reachable,
                        openai_reachable |-> openai_configured /\ openai_reachable]]

\* CosmosService.save_story (lines 84-108) called with a Story, as
\* test_cosmos_service.py does; upsert_ok is upsert_item returning
save_story(story, upsert_ok) ==
    /\ nreq < MaxRequests
    /\ nreq' = nreq + 1
    /\ UNCHANGED <<call, environ, auth, clients, inflight, openai_client, container, partition_key_path, files, now>>
    /\ next_uuid' = next_uuid + 1
    /\ IF upsert_ok
       THEN /\ store' = Upsert(store, story_dict(story))
            /\ resp' = Response("save_story", 200, story, PyNone, "not_called", "ok",
                                FALSE, NoReply)
       ELSE /\ UNCHANGED store
            /\ resp' = Response("save_story", 500, story, PyNone, "not_called", "raised",
                                FALSE, NoReply)

(***************************************************************************)
(* The service                                                             *)
(***************************************************************************)

Init ==
    /\ call = NoCall
    /\ openai_client \in BOOLEAN
    /\ container \in BOOLEAN
    \* the container as CosmosService creates it (cosmos_service.py, line 69)
    /\ partition_key_path = "/id"
    /\ store = {}
    /\ files = {}
    /\ next_uuid = 1
    /\ now = 0
    /\ nreq = 0
    /\ AuthIdle
    /\ resp = NoResp

CreateStory190 ==
    \E prompt \in SvcPrompts, genre \in SvcGenres, completion \in Completions :
        create_story_190(prompt, genre, completion)

CreateStoryFromImage229 ==
    \E image_description \in SvcDescriptions, theme \in SvcGenres,
       completion \in Completions :
        create_story_from_image_229(image_description, theme, completion)

CreateStory445 ==
    \E prompt \in SvcPrompts, genre \in SvcGenres, completion \in Completions,
       generate_image \in BOOLEAN :
        create_story_445(prompt, genre, completion, generate_image)

CreateStoryFromImage506 ==
    \E image_description \in SvcDescriptions, theme \in SvcGenres,
       completion \in Completions, generate_image \in BOOLEAN :
        create_story_from_image_506(image_description, theme, completion, generate_image)

GenerateStory ==
    \E prompt \in SvcPrompts, genre \in SvcGenres, completion \in Completions,
       title_answer \in TitleAnswers, save_ok \in BOOLEAN :
        generate_story(prompt, genre, completion, title_answer, save_ok)

GenerateStoryFromImage ==
    \E is_image \in BOOLEAN, image_description \in SvcDescriptions, theme \in SvcGenres,
       completion \in Completions, title_answer \in TitleAnswers, save_ok \in BOOLEAN :
        generate_story_from_image(is_image, image_description, theme, completion,
                                  title_answer, save_ok)

DeleteStory306 ==
    \E story_id \in 1..(next_uuid - 1), remove_ok \in SUBSET files, delete_ok \in BOOLEAN :
        delete_story_306(story_id, remove_ok, delete_ok)

DeleteStory607 ==
    \E story_id \in 1..(next_uuid - 1), remove_ok \in SUBSET files, delete_ok \in BOOLEAN :
        delete_story_607(story_id, remove_ok, delete_ok)

Next ==
    \/ CreateStory190
    \/ CreateStoryFromImage229
    \/ CreateStory445
    \/ CreateStoryFromImage506
    \/ GenerateStory
    \/ GenerateStoryFromImage
    \/ DeleteStory306
    \/ DeleteStory607

Spec == Init /\ [][Next]_vars

(***************************************************************************)
(* The store and the requests that read it                                 *)
(***************************************************************************)

\* the limits and offsets of the list requests
Limits == 1..2
Offsets == 0..2

\* the creation times and word counts of the stories saved directly
TestStories ==
    {[created_at |-> datetime(0, 0), word_count |-> 7],
     [created_at |-> datetime(0, 500000), word_count |-> 10]}

ReadHandlers ==
    {"get_stories_291", "story_stats", "get_stories_route", "get_story_route", "health_check"}

\* a read request leaves everything but the response as it is, so a read that
\* follows a read reaches no state that the second read alone does not reach:
\* the reads are taken from the states the other requests leave
ReadRequest == resp.handler \notin ReadHandlers

InitStore ==
    /\ call = NoCall
    /\ openai_client = TRUE
    /\ container \in BOOLEAN
    /\ partition_key_path \in PartitionKeyPaths
    /\ store = {}
    /\ files = {}
    /\ next_uuid = 1
    /\ now = 0
    /\ nreq = 0
    /\ AuthIdle
    /\ resp = NoResp

SaveStory ==
    \E t \in TestStories, upsert_ok \in BOOLEAN :
        save_story(Story(next_uuid, Chars("Test Story"), Chars("This is a test story."),
                         Chars("test"), PyStr(Chars("Test prompt")), PyNone, PyNone,
                         "text", t.created_at, t.word_count),
                   upsert_ok)

CreateHorrorStory ==
    create_story_190(Chars("a fox"), Chars("horror"),
                     CompletionAnswers(Chars("Untitled\nOnce there was a fox.")))

CreateImageStory ==
    create_story_from_image_229(PyStr(Chars("a red fox")), Chars("horror"),
                                CompletionAnswers(Chars("Untitled\nOnce there was a fox.")))

GetStories291 ==
    /\ ReadRequest
    /\ \E limit \in Limits, offset \in Offsets, skip \in Offsets, query_ok \in BOOLEAN :
        get_stories_291(ListQuery(limit, offset, skip), query_ok)

StoryStats == ReadRequest /\ \E query_ok \in BOOLEAN : story_stats(query_ok)

GetStoriesRoute ==
    /\ ReadRequest
    /\ \E limit \in Limits, offset \in Offsets, query_ok \in BOOLEAN, accepts_z \in BOOLEAN :
        get_stories_route(ListQuery(limit, offset, 0), query_ok, accepts_z)

GetStoryRoute ==
    /\ ReadRequest
    /\ \E story_id \in 1..(next_uuid - 1), read_ok \in BOOLEAN, accepts_z \in BOOLEAN :
        get_story_route(story_id, read_ok, accepts_z)

HealthCheck ==
    /\ ReadRequest
    /\ \E cosmos_reachable \in BOOLEAN, openai_configured \in BOOLEAN,
       openai_reachable \in BOOLEAN :
        health_check(cosmos_reachable, openai_configured, openai_reachable)

NextStore ==
    \/ SaveStory
    \/ CreateHorrorStory
    \/ CreateImageStory
    \/ DeleteStory306
    \/ DeleteStory607
    \/ GetStories291
    \/ StoryStats
    \/ GetStoriesRoute
    \/ GetStoryRoute
    \/ HealthCheck

SpecStore == InitStore /\ [][NextStore]_vars

(***************************************************************************)
(* A record's life: created, deleted, asked for again                      *)
(***************************************************************************)

\* the service with its container, followed for one request more than in the
\* other specifications, so that a record is created, deleted and deleted again
InitDeleted ==
    /\ call = NoCall
    /\ openai_client = TRUE
    /\ container = TRUE
    /\ partition_key_path \in PartitionKeyPaths
    /\ store = {}
    /\ files = {}
    /\ next_uuid = 1
    /\ now = 0
    /\ nreq = -1
    /\ AuthIdle
    /\ resp = NoResp

NextDeleted ==
    \/ CreateImageStory
    \/ DeleteStory306
    \/ DeleteStory607
    \/ GetStories291
    \/ StoryStats
    \/ GetStoriesRoute
    \/ GetStoryRoute

SpecDeleted == InitDeleted /\ [][NextDeleted]_vars

(***************************************************************************)
(* Two DELETE requests for one record, step by step                        *)
(***************************************************************************)

DeleteHandlers == {"delete_story_306", "delete_story_607"}

\* the two requests
Requests == {1, 2}

\* a request that has entered delete_story: which handler serves it, where
\* it is, the document it has read, what it has appended to deleted_files,
\* and the status it ends with
Entered(handler, story_id) ==
    [handler |-> handler, story_id |-> story_id, pc |-> "read", dir |-> "none",
     story |-> NoDoc, deleted_files |-> {}, status |-> 0]

\* the document field that names the file kept under dir
FieldOf(story, dir) ==
    IF dir = "uploads" THEN story.image_filename ELSE story.generated_image_filename

\* where a request goes once it is through with the file under dir: the
\* handler of lines 607-657 turns to the generated image after the upload
AfterFile(q, dir) ==
    IF dir = "uploads" /\ q.handler = "delete_story_607"
    THEN [q EXCEPT !.pc = "exists", !.dir = "generated"]
    ELSE [q EXCEPT !.pc = "delete", !.dir = "none"]

\* an os.remove that is content with a file that is not there
os_remove_missing_ok(f, remove_ok) ==
    [raised |-> ~remove_ok, files |-> files \ f]

\* os.remove(path): raises when the file is not there (any more) or cannot
\* be removed
os_remove(f, remove_ok) ==
    IF f \subseteq files /\ remove_ok
    THEN [raised |-> FALSE, files |-> files \ f]
    ELSE [raised |-> TRUE, files |-> files]

raceVars == <<call, environ, auth, clients, openai_client, container, partition_key_path,
              next_uuid, now, nreq, resp>>

\* a DELETE for a stored record arrives; the second is for the id of the first
BeginDelete ==
    /\ Cardinality(DOMAIN inflight) < Cardinality(Requests)
    /\ \E handler \in DeleteHandlers, d \in store :
         /\ \A r \in DOMAIN inflight : inflight[r].story_id = d.id
         /\ inflight' = Append(inflight, Entered(handler, d.id))
    /\ UNCHANGED <<raceVars, store, files>>

\* lines 612-619 (311-321): no container is a 503, a read_item that raises
\* is a 404
ReadItem(r) ==
    /\ inflight[r].pc = "read"
    /\ \E found \in {read_item(inflight[r].story_id, PkId(inflight[r].story_id))} :
         inflight' = [inflight EXCEPT ![r] =
            IF ~container THEN [@ EXCEPT !.pc = "done", !.status = 503]
            ELSE IF found = {} THEN [@ EXCEPT !.pc = "done", !.status = 404]
            ELSE [@ EXCEPT !.pc = "exists", !.dir = "uploads",
                           !.story = CHOOSE d \in found : TRUE]]
    /\ UNCHANGED <<raceVars, store, files>>

\* lines 624-626 and 635-637: the document names a file and os.path.exists
\* finds it
PathExists(r) ==
    /\ inflight[r].pc = "exists"
    /\ \E f \in {FileOf(inflight[r].dir, FieldOf(inflight[r].story, inflight[r].dir))} :
         inflight' = [inflight EXCEPT ![r] =
            IF f # {} /\ f \subseteq files THEN [@ EXCEPT !.pc = "remove"]
            ELSE AfterFile(@, @.dir)]
    /\ UNCHANGED <<raceVars, store, files>>

\* lines 627-632 and 638-643: os.remove, and the append to deleted_files
\* when it has returned; an exception is logged
OsRemove(r) ==
    /\ inflight[r].pc = "remove"
    /\ \E f \in {FileOf(inflight[r].dir, FieldOf(inflight[r].story, inflight[r].dir))} :
       \E remove_ok \in BOOLEAN :
       \E rm \in {os_remove(f, remove_ok)} :
         /\ files' = rm.files
         /\ inflight' = [inflight EXCEPT ![r] =
               AfterFile([@ EXCEPT !.deleted_files =
                             IF rm.raised THEN @ ELSE @ \cup f], @.dir)]
    /\ UNCHANGED <<raceVars, store>>

\* lines 646-657 (334-343): delete_item raises when the document is gone or
\* the store fails, which ends the request with a 500
DeleteItem(r) ==
    /\ inflight[r].pc = "delete"
    /\ \E delete_ok \in BOOLEAN :
       \E found \in {read_item(inflight[r].story_id, PkId(inflight[r].story_id))} :
         IF found # {} /\ delete_ok
         THEN /\ store' = delete_item(inflight[r].story_id, PkId(inflight[r].story_id))
              /\ inflight' = [inflight EXCEPT ![r].pc = "done", ![r].status = 200]
         ELSE /\ UNCHANGED store
              /\ inflight' = [inflight EXCEPT ![r].pc = "done", ![r].status = 500]
    /\ UNCHANGED <<raceVars, files>>

\* an image story is created while no DELETE is under way
CreateStoredImageStory ==
    /\ inflight = <<>>
    /\ store = {}
    /\ CreateImageStory

InitRace ==
    /\ call = NoCall
    /\ openai_client = TRUE
    /\ container = TRUE
    /\ partition_key_path = "/id"
    /\ store = {}
    /\ files = {}
    /\ next_uuid = 1
    /\ now = 0
    /\ nreq = 0
    /\ AuthIdle
    /\ resp = NoResp

NextRace ==
    \/ CreateStoredImageStory
    \/ BeginDelete
    \/ \E r \in DOMAIN inflight : ReadItem(r)
    \/ \E r \in DOMAIN inflight : PathExists(r)
    \/ \E r \in DOMAIN inflight : OsRemove(r)
    \/ \E r \in DOMAIN inflight : DeleteItem(r)

SpecRace == InitRace /\ [][NextRace]_vars

(***************************************************************************)
(* The authentication service in a changing environment                    *)
(***************************************************************************)

InitAuth ==
    /\ call = NoCall
    /\ openai_client = TRUE
    /\ container = TRUE
    /\ partition_key_path = "/id"
    /\ store = {}
    /\ files = {}
    /\ next_uuid = 1
    /\ now = 0
    /\ nreq = 0
    /\ resp = NoResp
    /\ environ \in Environs
    /\ auth = NoAuth
    /\ clients = <<>>
    /\ inflight = <<>>

Putenv ==
    \E name \in EnvNames :
    \E value \in IF name \in KeyVariables THEN KeyValues ELSE IndicatorValues :
        putenv(name, value)

NextAuth ==
    \/ AzureAuthService
    \/ get_openai_auth
    \/ get_cosmos_auth
    \/ Putenv

SpecAuth == InitAuth /\ [][NextAuth]_vars

(***************************************************************************)
(* The shared credential (src/app/services)                                *)
(***************************************************************************)

\* how many service objects are constructed
MaxServices == 3

\* a get_async_credential that makes a new credential on every call
get_async_credential_fresh ==
    [auth EXCEPT !._async_credential = auth.made + 1, !.made = auth.made + 1]

\* AzureAuthService.get_async_credential (lines 58-68): auth_service after
\* the call; the credential returned is its _async_credential, made on the
\* first call and cached
get_async_credential ==
    IF auth._async_credential = 0
    THEN [auth EXCEPT !._async_credential = auth.made + 1, !.made = auth.made + 1]
    ELSE auth

\* AzureAuthService.close (lines 94-97): the cached credential is closed and
\* stays cached
auth_service_close ==
    IF auth._async_credential # 0
    THEN [auth EXCEPT !.closed = @ \cup {auth._async_credential}]
    ELSE auth

\* a service object: its client ("none", "key" or "credential"), the
\* credential the client holds, and whether the object has used a credential
\* that was closed at the time
ServiceObject(kind, client, credential) ==
    [kind |-> kind, client |-> client, credential |-> credential, used_closed |-> FALSE]

\* CosmosService() (cosmos_service.py, lines 21-36): no client yet
NewCosmosService ==
    /\ auth.constructed
    /\ Len(clients) < MaxServices
    /\ clients' = Append(clients, ServiceObject("cosmos", "none", 0))
    /\ UNCHANGED <<environ, auth, idleVars>>

\* OpenAIService() (openai_service.py, lines 15-38): in production the
\* client gets its tokens from the shared credential
NewOpenAIService ==
    /\ auth.constructed
    /\ Len(clients) < MaxServices
    /\ IF auth.is_production
       THEN \E a \in {get_async_credential} :
              /\ auth' = a
              /\ clients' = Append(clients,
                                   ServiceObject("openai", "credential", a._async_credential))
       ELSE /\ clients' = Append(clients, ServiceObject("openai", "key", 0))
            /\ UNCHANGED auth
    /\ UNCHANGED <<environ, idleVars>>

\* a CosmosService operation (check_connection, save_story, get_story,
\* get_stories): _get_client (lines 38-54) builds the client when there is
\* none, and the request is sent with the client's credential
CosmosRequest(i) ==
    /\ clients[i].kind = "cosmos"
    /\ \E a \in {IF clients[i].client = "none" /\ auth.is_production
                 THEN get_async_credential ELSE auth} :
       \E credential \in {IF clients[i].client # "none" THEN clients[i].credential
                          ELSE IF auth.is_production THEN a._async_credential ELSE 0} :
         /\ auth' = a
         /\ clients' = [clients EXCEPT ![i] =
               [@ EXCEPT !.client = IF credential = 0 THEN "key" ELSE "credential",
                         !.credential = credential,
                         !.used_closed = @ \/ credential \in auth.closed]]
    /\ UNCHANGED <<environ, idleVars>>

\* an OpenAIService operation: the token provider asks the credential
OpenAIRequest(i) ==
    /\ clients[i].kind = "openai"
    /\ clients' = [clients EXCEPT ![i].used_closed =
                      @ \/ clients[i].credential \in auth.closed]
    /\ clients' # clients
    /\ UNCHANGED <<environ, auth, idleVars>>

\* CosmosService.close (lines 177-187): the client is closed and dropped, and
\* in production auth_service is closed
CosmosClose(i) ==
    /\ clients[i].kind = "cosmos"
    /\ clients' = [clients EXCEPT ![i].client = "none", ![i].credential = 0]
    /\ auth' = IF auth.is_production THEN auth_service_close ELSE auth
    /\ UNCHANGED <<environ, idleVars>>

\* the process runs with a managed identity, or with keys
CredentialEnvirons ==
    {[EmptyEnviron EXCEPT !["WEBSITE_SITE_NAME"] = PyStr(Chars("x"))],
     [EmptyEnviron EXCEPT !["AZURE_OPENAI_KEY"] = PyStr(Chars("k")),
                          !["COSMOS_DB_KEY"] = PyStr(Chars("k"))]}

InitCredential ==
    /\ call = NoCall
    /\ openai_client = TRUE
    /\ container = TRUE
    /\ partition_key_path = "/id"
    /\ store = {}
    /\ files = {}
    /\ next_uuid = 1
    /\ now = 0
    /\ nreq = 0
    /\ resp = NoResp
    /\ environ \in CredentialEnvirons
    /\ auth = NoAuth
    /\ clients = <<>>
    /\ inflight = <<>>

NextCredential ==
    \/ AzureAuthService
    \/ NewCosmosService
    \/ NewOpenAIService
    \/ \E i \in DOMAIN clients : CosmosRequest(i)
    \/ \E i \in DOMAIN clients : OpenAIRequest(i)
    \/ \E i \in DOMAIN clients : CosmosClose(i)

SpecCredential == InitCredential /\ [][NextCredential]_vars

(***************************************************************************)
(* Properties                                                              *)
(***************************************************************************)

NormDone == call.fn = "normalize_story_output" /\ call.done
SynthDone == call.fn = "_synthesize_title" /\ call.done
ImageDone == call.fn = "generate_story_image" /\ call.done

\* the words of the properties, kept apart from the constants of the model
GenericTitleWords ==
    {Chars("untitled"), Chars("story"), Chars("untitled story"), Chars("the story")}

\* the title synthesis as the priority list states it
SynthesisByPriority(prompt, content, genre) ==
    IF prompt # <<>> /\ Len(prompt) < 60 THEN strip(prompt)
    ELSE IF Len(split(content)) >= 3
         THEN join(<<" ">>, SubSeq(split(content), 1,
                                   IF Len(split(content)) < 10 THEN Len(split(content)) ELSE 10))
                  \o <<".", ".", ".">>
    ELSE capitalize(genre) \o Chars(" Story")

\* the unwrapped response is a JSON object
IsObjectText(raw) ==
    /\ raw # <<>>
    /\ startswith(Unwrap(raw), <<"{">>) /\ endswith(Unwrap(raw), <<"}">>)
    /\ json_loads(Unwrap(raw)).ok

ObjectOf(raw) == json_loads(Unwrap(raw)).val

\* the members the normalizer reads are strings or null when present
TextMembers(obj) ==
    \A k \in {Chars("title"), Chars("story_title"), Chars("content"), Chars("story")} :
        k \in DOMAIN obj => obj[k].t \in {"str", "null"}

\* the text under key k1, and under key k2 when k1 gives none
Preferred(obj, k1, k2) ==
    IF k1 \in DOMAIN obj /\ obj[k1].t = "str" /\ obj[k1].v # <<>> THEN obj[k1].v
    ELSE IF k2 \in DOMAIN obj /\ obj[k2].t = "str" THEN obj[k2].v
    ELSE <<>>

ObjTitle(raw) == Preferred(ObjectOf(raw), Chars("title"), Chars("story_title"))
ObjContent(raw) == Preferred(ObjectOf(raw), Chars("content"), Chars("story"))

\* C1: normalize_story_output returns, for every raw, prompt and genre, a
\* pair (title, content) whose title is a non-empty string.
NormalizerTitleNeverEmpty ==
    NormDone => Len(call.out) = 2 /\ call.out[1] # <<>>

\* a response of plain prose: not fenced, not an object, already stripped,
\* and its first line is not heading-like
IsPlainProse(raw) ==
    /\ raw # <<>> /\ strip(raw) = raw /\ ~FenceMatches(raw)
    /\ raw[1] \notin {"{", "#"}
    /\ LET first == strip(splitlines(raw)[1])
       IN  ~istitle(first) /\ ~startswith(lower(first), Chars("chapter"))
             /\ ~startswith(lower(first), Chars("the "))

\* C2: title synthesis follows the priority prompt (non-empty, under 60
\* characters, trimmed), then the first 10 of at least 3 content tokens with
\* "...", then "<Genre> Story"; plain prose with prompt "short prompt" gets
\* the title "short prompt" and the prose as content.
TitleSynthesisPriority ==
    /\ SynthDone =>
         call.out = SynthesisByPriority(call.args[1], call.args[2], call.args[3])
    /\ (NormDone /\ IsPlainProse(call.args[1]) /\ call.args[2] = Chars("short prompt")) =>
         call.out = <<Chars("short prompt"), call.args[1]>>

\* the second priority was taken: a 60-character prompt, eleven content tokens
TitleSynthesisPriorityWitness ==
    /\ SynthDone
    /\ Len(call.args[1]) = 60
    /\ call.args[2] = Chars("a b c d e f g h i j k")
    /\ call.out = Chars("a b c d e f g h i j...")

\* the object's title is empty or one of the generic titles, in any letter case
GenericTitleCase(raw) ==
    /\ IsObjectText(raw)
    /\ TextMembers(ObjectOf(raw))
    /\ ObjTitle(raw) = <<>> \/ lower(ObjTitle(raw)) \in GenericTitleWords

\* C3 as stated: with an empty or generic title in the object, the title is
\* synthesized and the object's content is returned unchanged.
GenericTitleContentUnchanged ==
    (NormDone /\ GenericTitleCase(call.args[1]) /\ ObjContent(call.args[1]) # <<>>) =>
        /\ call.out[2] = ObjContent(call.args[1])
        /\ call.out[1] = SynthesisByPriority(call.args[2], call.out[2], call.args[3])

\* C3 amended: with an empty or generic title in the object, the title is
\* synthesized from (prompt, returned content, genre) and the returned content
\* is the object's content with its surrounding whitespace stripped, or the
\* whole unwrapped text when that is empty.
GenericTitleSynthesized ==
    (NormDone /\ GenericTitleCase(call.args[1])) =>
        /\ call.out[2] = IF strip(ObjContent(call.args[1])) # <<>>
                         THEN strip(ObjContent(call.args[1]))
                         ELSE Unwrap(call.args[1])
        /\ call.out[1] = SynthesisByPriority(call.args[2], call.out[2], call.args[3])

\* the title "Untitled" was replaced by the prompt "x"
GenericTitleSynthesizedWitness ==
    /\ NormDone
    /\ call.args[1] = Chars("{\"title\":\"Untitled\",\"content\":\"Once upon a time.\"}")
    /\ call.args[2] = Chars("x")
    /\ call.out = <<Chars("x"), Chars("Once upon a time.")>>

\* C4: an object with a non-empty, non-generic title (key title before
\* story_title) and non-empty content (key content before story) is returned
\* as (title, content), stripped, whatever the prompt and the genre are.
ObjectTitleAndContentReturned ==
    (/\ NormDone
     /\ IsObjectText(call.args[1])
     /\ TextMembers(ObjectOf(call.args[1]))
     /\ strip(ObjTitle(call.args[1])) # <<>>
     /\ lower(strip(ObjTitle(call.args[1]))) \notin GenericTitleWords
     /\ strip(ObjContent(call.args[1])) # <<>>) =>
        call.out = <<strip(ObjTitle(call.args[1])), strip(ObjContent(call.args[1]))>>

\* both keys of each pair are present and the preferred ones were returned
ObjectTitleAndContentReturnedWitness ==
    /\ NormDone
    /\ call.args[1] = Chars("{\"title\":\"A\",\"story_title\":\"B\",\"content\":\"C d e\",\"story\":\"F\"}")
    /\ call.args[2] = Rep("p", 60)
    /\ call.out = <<Chars("A"), Chars("C d e")>>

\* the response is not a JSON object
IsPlainText(raw) == raw # <<>> /\ ~IsObjectText(raw)

PlainLines(raw) == NonBlank(splitlines(Unwrap(raw)))

\* the first non-blank line is short and looks like a heading
HeadingCase(raw) ==
    /\ IsPlainText(raw)
    /\ PlainLines(raw) # <<>>
    /\ LET first == strip(PlainLines(raw)[1])
       IN  /\ Len(first) < 100
           /\ \/ first[1] = "#"
              \/ istitle(first)
              \/ startswith(lower(first), Chars("chapter"))
              \/ startswith(lower(first), Chars("the "))

HeadingTitle(raw, prompt, content, genre) ==
    LET cleaned == StripHashes(strip(PlainLines(raw)[1]))
    IN  IF cleaned = <<>> \/ lower(cleaned) \in GenericTitleWords
        THEN SynthesisByPriority(prompt, content, genre)
        ELSE cleaned

\* C5 as stated: a heading-like first line becomes the title and the content
\* is the remaining non-blank lines joined by newlines, so the heading line
\* is never part of the content; otherwise the title is synthesized and the
\* content is the full text.
HeadingLineNotInContent ==
    /\ (NormDone /\ HeadingCase(call.args[1])) =>
          /\ call.out[2] = join(<<"\n">>, Tail(PlainLines(call.args[1])))
          /\ call.out[1] = HeadingTitle(call.args[1], call.args[2], call.out[2], call.args[3])
    /\ (NormDone /\ IsPlainText(call.args[1]) /\ ~HeadingCase(call.args[1])) =>
          call.out = <<SynthesisByPriority(call.args[2], Unwrap(call.args[1]), call.args[3]),
                       Unwrap(call.args[1])>>

\* C5 amended: the content is the remaining non-blank lines joined by newlines
\* and stripped, or the full text (heading line included) when no non-blank
\* line follows the heading.
HeadingLineIsTitle ==
    /\ (NormDone /\ HeadingCase(call.args[1])) =>
          /\ call.out[2] = IF strip(join(<<"\n">>, Tail(PlainLines(call.args[1])))) # <<>>
                           THEN strip(join(<<"\n">>, Tail(PlainLines(call.args[1]))))
                           ELSE Unwrap(call.args[1])
          /\ call.out[1] = HeadingTitle(call.args[1], call.args[2], call.out[2], call.args[3])
    /\ (NormDone /\ IsPlainText(call.args[1]) /\ ~HeadingCase(call.args[1])) =>
          call.out = <<SynthesisByPriority(call.args[2], Unwrap(call.args[1]), call.args[3]),
                       Unwrap(call.args[1])>>

\* the heading "# Chapter One" became the title and left the content
HeadingLineIsTitleWitness ==
    /\ NormDone
    /\ call.args[1] = Chars("# Chapter One\nIt was dark.")
    /\ call.args[2] = <<>>
    /\ call.out = <<Chars("Chapter One"), Chars("It was dark.")>>

\* the provider rejected the prompt on content-policy grounds
PolicyRejection(cfg, reply) ==
    /\ cfg.endpoint /\ cfg.api_key /\ cfg.deployment
    /\ reply.post = "answered" /\ reply.status = 400
    /\ reply.body.json /\ reply.body.error = "dict"
    /\ Contains(lower(reply.body.message), Chars("content policy"))

\* the handlers that create a story, of main.py and of the routes package
MainCreates ==
    {"create_story_190", "create_story_from_image_229",
     "create_story_445", "create_story_from_image_506"}
RouteCreates == {"generate_story", "generate_story_from_image"}

\* C6: every story record a create operation writes has word_count equal to
\* the number of whitespace-separated tokens of its content, and no later
\* operation changes the word_count of a stored record.
WordCountFixedAtWrite ==
    /\ [](\A d \in store : d.word_count = Len(split(d.content)))
    /\ [][\A d \in store : \A e \in store' :
              e.id = d.id => e.word_count = d.word_count /\ e.content = d.content]_vars

\* C6: a record with words was written by one request and is still stored
\* after the next request has been handled.
WordCountFixedAtWriteWitness ==
    /\ nreq = 2
    /\ \E d \in store : d.created_at = isoformat(datetime(0, 0)) \o <<"Z">> /\ d.word_count > 1
    /\ \E d \in store : d.story_type = "image"

\* C7: when the illustration is requested in a create call whose completion
\* succeeded and the provider rejects it for content policy, the response is
\* a success with the story populated and the image metadata carries
\* error_type "content_policy".
ContentPolicyFailureKeepsStory ==
    ( /\ resp.handler \in {"create_story_445", "create_story_from_image_506"}
      /\ resp.completion = "ok"
      /\ resp.image_requested
      /\ PolicyRejection(SvcImageConfig, resp.provider) )
    => /\ resp.success
       /\ resp.story # NoDoc
       /\ resp.generated_image.t = "error"
       /\ resp.generated_image.error_type = "content_policy"

\* C8: generate_story_image raises ContentPolicyError exactly when the
\* provider answers 400 with a message containing "content policy", and an
\* ImageGenerationError that is not a ContentPolicyError for any other failure.
ImageFailureKindsDistinguished ==
    ImageDone =>
        /\ (call.out.raised /\ call.out.cls = "ContentPolicyError")
              <=> PolicyRejection(call.args[1], call.args[2])
        /\ (call.out.raised /\ ~PolicyRejection(call.args[1], call.args[2]))
              => call.out.cls = "ImageGenerationError"

\* the completion of a create operation failed: the call raised, or there was
\* no client to make it with
CompletionFailed(r) ==
    /\ r.handler \in MainCreates \cup RouteCreates
    /\ \/ r.completion = "raised"
       \/ r.completion = "not_called" /\ r.handler \in MainCreates

\* C9: when the completion succeeds and the upsert raises, create_story and
\* create_story_from_image answer success true with the complete story
\* record, and the store is left as it was.
UpsertFailureSwallowed ==
    [][(resp'.handler \in MainCreates /\ resp'.upsert = "raised")
          => /\ resp'.completion = "ok"
             /\ resp'.status = 200 /\ resp'.success
             /\ resp'.story # NoDoc
             /\ resp'.story \notin store'
             /\ resp'.story.word_count = Len(split(resp'.story.content))
             /\ store' = store]_vars

\* C9: the upsert raised in a request that follows one whose record was
\* stored, and the response is a success.
UpsertFailureSwallowedWitness ==
    /\ resp.handler \in MainCreates
    /\ resp.upsert = "raised"
    /\ resp.success
    /\ store # {}

\* C10: when the completion fails in a create operation the response is a
\* 500 and no record is written; a create operation that answers success
\* had its completion succeed, so only a failed store write or illustration
\* can lie behind a success.
GenerationFailureFails ==
    [][/\ CompletionFailed(resp') => resp'.status = 500 /\ ~resp'.success /\ store' = store
       /\ (resp'.handler \in MainCreates \cup RouteCreates /\ resp'.success)
             => resp'.completion = "ok"]_vars

\* C10: the completion raised in a request that follows one whose record was
\* stored.
GenerationFailureFailsWitness ==
    /\ resp.handler \in MainCreates
    /\ resp.completion = "raised"
    /\ resp.status = 500
    /\ store # {}



\* the step is the handling of a DELETE request
DeleteStep == nreq' = nreq + 1 /\ resp'.handler \in DeleteHandlers

\* C11: a DELETE of the id of a stored record finds the record whatever field
\* the container is partitioned on: when the record is filed under its genre
\* 'horror', the request is not answered "not found"; it succeeds and the
\* record is gone, unless the store's delete call itself fails
DeleteFindsPartitionKey ==
    [][\A d \in store :
          (/\ DeleteStep
           /\ container
           /\ resp'.story_id = d.id
           /\ d.genre = Chars("horror")
           /\ PartitionKeyOf(d) = PkText(Chars("horror")))
          => /\ resp'.status \in {200, 500}
             /\ resp'.status = 200 => d \notin store']_vars

\* C12 as stated: a DELETE of an id that no record has is answered 404
DeleteUnknownIs404 ==
    [][(DeleteStep /\ ~\E d \in store : d.id = resp'.story_id)
         => resp'.status = 404]_vars

\* C12: with a store configured, a DELETE of an id that no record has is
\* answered 404; a DELETE answered 404 or 503 changes neither the store nor
\* the files; a DELETE answered with success has removed exactly the record of
\* that id, and its deleted_files are the files it removed, all of them files
\* the record names
DeleteOutcome ==
    [][DeleteStep =>
         /\ (container /\ ~\E d \in store : d.id = resp'.story_id) => resp'.status = 404
         /\ resp'.status \in {404, 503} => store' = store /\ files' = files
         /\ ~container => resp'.status = 503
         /\ resp'.status = 200 =>
              \E d \in store :
                 /\ d.id = resp'.story_id
                 /\ store' = store \ {d}
                 /\ ~\E e \in store' : e.id = resp'.story_id
                 /\ resp'.deleted_files = files \ files'
                 /\ resp'.deleted_files \subseteq
                       FileOf("uploads", d.image_filename)
                       \cup FileOf("generated", d.generated_image_filename)]_vars

\* a record with an uploaded file has been deleted together with its file
DeleteOutcomeWitness ==
    /\ resp.handler \in DeleteHandlers
    /\ resp.status = 200
    /\ resp.deleted_files # {}
    /\ ~\E d \in store : d.id = resp.story_id


ListHandlers == {"get_stories_291", "get_stories_route"}

\* the ids of a list of records
IdsOf(q) == [i \in DOMAIN q |-> q[i].id]

\* the pages a list request may be answered with: offset records skipped and
\* at most limit records taken from the records in descending created_at order
Pages(limit, offset) ==
    {IdsOf(OffsetLimit(q, offset, limit)) : q \in OrderByCreatedAtDesc(store)}

\* C13: a list request with (limit, offset) whose query succeeds is answered
\* with the page of the stored records in descending created_at order, offset
\* records skipped and at most limit returned, and with total equal to the
\* number of all stored records; the page is empty when offset >= total
ListReturnsPageAndTotal ==
    (resp.handler \in ListHandlers /\ resp.success /\ container) =>
        /\ resp.total = PyInt(Cardinality(store))
        /\ resp.stories.t = "list"
        /\ IdsOf(resp.stories.v) \in Pages(resp.query.limit, resp.query.offset)
        /\ resp.query.offset >= Cardinality(store) => resp.stories.v = <<>>

\* C14: with a store, the statistics are total = the number of stored
\* records, text and image = the numbers of records of each story_type,
\* avg_words = the integer part of the mean word_count, 0 for an empty store;
\* text + image = total; without a store all four are 0
StatsMatchStore ==
    (resp.handler = "story_stats" /\ resp.success) =>
        /\ resp.stats.text + resp.stats.image = resp.stats.total
        /\ ~container => resp.stats = Stats(0, 0, 0, 0)
        /\ container =>
             /\ resp.stats.total = Cardinality(store)
             /\ resp.stats.text = Cardinality({d \in store : d.story_type = "text"})
             /\ resp.stats.image = Cardinality({d \in store : d.story_type = "image"})
             /\ store = {} => resp.stats.avg_words = 0
             /\ resp.stats.avg_words * resp.stats.total <= SumWordCount(store)
             /\ store # {} =>
                  SumWordCount(store) < (resp.stats.avg_words + 1) * resp.stats.total

\* statistics of a text and an image record whose mean word count is not whole
StatsMatchStoreWitness ==
    /\ resp.handler = "story_stats"
    /\ resp.success
    /\ container
    /\ resp.stats.text = 1
    /\ resp.stats.image = 1
    /\ resp.stats.avg_words * 2 < SumWordCount(store)

\* C15: a list or stats request whose store query fails does not fail: it is
\* answered with success and an empty list, or with zero counts
QueryFailureDegrades ==
    (resp.handler \in ListHandlers \cup {"story_stats"} /\ resp.query_failed) =>
        /\ resp.status = 200
        /\ resp.success
        /\ resp.handler \in ListHandlers => resp.stories = PyList(<<>>)
        /\ resp.handler = "story_stats" => resp.stats = Stats(0, 0, 0, 0)

TextCreates == {"create_story_190", "create_story_445", "generate_story"}
ImageCreates ==
    {"create_story_from_image_229", "create_story_from_image_506", "generate_story_from_image"}

\* C16: a create request with an empty prompt never gets as far as a story,
\* and a create request answered 4xx has called no completion, written no
\* file and stored no record
InvalidCreateRejected ==
    [][(nreq' = nreq + 1 /\ resp'.handler \in TextCreates \cup ImageCreates) =>
         /\ (resp'.handler \in TextCreates /\ resp'.story # NoDoc)
               => resp'.story.prompt # PyStr(<<>>)
         /\ resp'.status \in 400..499 =>
               /\ resp'.completion = "not_called"
               /\ store' = store
               /\ files' = files]_vars

\* C17: GET /health reports cosmos_db healthy exactly when the store is
\* reachable, azure_openai healthy exactly when the completion API is
\* reachable, and the overall status healthy exactly when both are
HealthReflectsReachability ==
    resp.handler = "health_check" =>
        /\ resp.services.cosmos_db = Chars("healthy") <=> resp.services.cosmos_reachable
        /\ resp.services.azure_openai = Chars("healthy") <=> resp.services.openai_reachable
        /\ resp.services.status = Chars("healthy")
              <=> (resp.services.cosmos_reachable /\ resp.services.openai_reachable)

\* C18: the store is append/delete only: a step adds at most one record, under
\* an id no stored record has, changes no stored record (id, content,
\* word_count, created_at and all other fields stay as written until the
\* record is deleted), and ids are unique in the store
StoreAppendDeleteOnly ==
    [][/\ \A d \in store : \A e \in store' : e.id = d.id => e = d
       /\ \A e \in store' \ store : ~\E d \in store : d.id = e.id
       /\ Cardinality(store' \ store) <= 1
       /\ \A d, e \in store' : d.id = e.id => d = e]_vars

\* two records have been created one after the other
StoreAppendDeleteOnlyWitness ==
    /\ Cardinality(store) = 2
    /\ \E d, e \in store : StrLess(d.created_at, e.created_at) /\ d.id < e.id

\* the provider answers with an image that is downloaded and written
ProviderSucceeds(reply) ==
    /\ reply.post = "answered"
    /\ reply.status = 200
    /\ reply.body.has_url
    /\ reply.download = "ok"
    /\ reply.write_ok

SaveGetRoundTrip ==
    (resp.handler = "save_story" /\ resp.status = 200 /\ partition_key_path = "/id") =>
        /\ \A accepts_z \in BOOLEAN :
              get_story(resp.story.id, TRUE, accepts_z) = [t |-> "story", v |-> resp.story]
        /\ \E d \in store : d.id = resp.story.id
        /\ \A accepts_z \in BOOLEAN, limit \in Limits, offset \in Offsets :
           \A items \in OrderByCreatedAtDesc(store) :
              \E r \in {get_stories(limit, offset, TRUE, accepts_z, items)} :
                 /\ ~r.raised => r.total = Cardinality(store)
                 /\ accepts_z => ~r.raised

\* a story with a fraction of a second has been saved next to another record
SaveGetRoundTripWitness ==
    /\ resp.handler = "save_story"
    /\ resp.status = 200
    /\ partition_key_path = "/id"
    /\ resp.story.created_at.microsecond # 0
    /\ Cardinality(store) = 2


\* C21 as stated: when any of the five variables is set at construction,
\* is_production is true
ProductionWhenAnySet ==
    [][(~auth.constructed /\ auth'.constructed
        /\ \E name \in ProductionIndicators : environ[name] # PyNone)
       => auth'.is_production]_vars

\* C21: the mode is fixed at construction: is_production is true exactly when
\* one of the five variables has a non-empty value at that moment, and no
\* later change of the environment changes it; in production get_openai_auth
\* and get_cosmos_auth return None as the key even when a key is configured,
\* otherwise they return the configured key
AuthModeFixedAtConstruction ==
    /\ [][/\ (~auth.constructed /\ auth'.constructed)
               => (auth'.is_production
                     <=> \E name \in ProductionIndicators :
                            environ[name] \notin {PyNone, PyStr(<<>>)})
          /\ auth.constructed
               => auth'.constructed /\ auth'.is_production = auth.is_production]_vars
    /\ [](\A i \in DOMAIN auth.result :
             auth.result[i].key = IF auth.is_production THEN PyNone
                                  ELSE auth.result[i].configured)

\* in production mode, found from a variable that has been deleted since, a
\* configured key is not returned
AuthModeFixedAtConstructionWitness ==
    /\ auth.is_production
    /\ \A name \in ProductionIndicators : environ[name] = PyNone
    /\ auth.result # <<>>
    /\ auth.result[1].configured = PyStr(Chars("k"))
    /\ auth.result[1].key = PyNone


\* the partition-key values to try for record d, in the order of priority:
\* the value at the container's partition-key path, then the record's genre,
\* story_type and id (the records have no theme and no user_id)
PartitionKeyCandidates(d) ==
    <<PartitionKeyOf(d), PkText(d.genre),
      PkText(IF d.story_type = "text" THEN Chars("text") ELSE Chars("image")),
      PkId(d.id)>>

\* C22: a DELETE of the id of a stored record tries the partition-key
\* candidates in their order of priority and stops at the first that succeeds:
\* the keys it has tried are a non-empty prefix of the candidates that ends
\* with the first key the record is filed under, and it is not answered 404
DeleteTriesCandidatesInOrder ==
    [][\A d \in store :
          (DeleteStep /\ container /\ resp'.story_id = d.id) =>
             /\ resp'.attempted # <<>>
             /\ Len(resp'.attempted) <= Len(PartitionKeyCandidates(d))
             /\ \A i \in DOMAIN resp'.attempted :
                   /\ resp'.attempted[i] = PartitionKeyCandidates(d)[i]
                   /\ (resp'.attempted[i] = PartitionKeyOf(d)) <=> (i = Len(resp'.attempted))
             /\ resp'.status # 404]_vars


\* C23: in a DELETE that has found its record, a file whose removal fails
\* stays on disk and the failure is not propagated: the record delete is
\* still attempted, the answer is a success exactly when the record is
\* deleted, and deleted_files of a success lists exactly the files that
\* existed and were removed by this request
FileRemovalFailureTolerated ==
    [][\A d \in store :
          (DeleteStep /\ resp'.story_id = d.id /\ resp'.status \in {200, 500}) =>
             /\ resp'.remove_failed \subseteq files'
             /\ files' \subseteq files
             /\ files \ files' \subseteq FileOf("uploads", d.image_filename)
                                          \cup FileOf("generated", d.generated_image_filename)
             /\ (resp'.status = 200) <=> (d \notin store')
             /\ resp'.status = 200 =>
                   /\ resp'.deleted_files = files \ files'
                   /\ resp'.deleted_files \cap resp'.remove_failed = {}]_vars

\* a DELETE has succeeded although the removal of the record's file failed
FileRemovalFailureToleratedWitness ==
    /\ resp.handler \in DeleteHandlers
    /\ resp.status = 200
    /\ resp.remove_failed # {}
    /\ resp.remove_failed \subseteq files
    /\ resp.deleted_files = {}
    /\ ~\E d \in store : d.id = resp.story_id


\* C24: unwrapping a fence is transparent: for every JSON-object text t,
\* normalize_story_output on t wrapped in a triple-backtick fence (with or
\* without a "json" tag in any letter case, with whitespace around the block
\* and around t) returns the same (title, content) as on t itself
FenceUnwrappingTransparent ==
    \A t \in FencedTexts :
        (NormDone /\ IsObjectText(t) /\ call.args[1] \in Fenced(t)) =>
            call.out = normalize_story_output(t, call.args[2], call.args[3])

\* an object under an upper-case tag, padded inside and outside the fence, is
\* returned as the bare object is
FenceUnwrappingTransparentWitness ==
    /\ NormDone
    /\ call.args[1] = <<"\n">> \o Fence \o Chars("JSON") \o <<"\n">>
                        \o Chars("{\"title\":\"The Lost Key\",\"content\":\"A key was lost.\"}")
                        \o <<"\n">> \o Fence \o <<"\n">>
    /\ call.out = <<Chars("The Lost Key"), Chars("A key was lost.")>>


\* key k of the object gives non-empty text
GivesText(obj, k) == k \in DOMAIN obj /\ obj[k].t = "str" /\ strip(obj[k].v) # <<>>

\* the response is an object in which neither content nor story gives text
NoContentCase(raw) ==
    /\ IsObjectText(raw)
    /\ ~GivesText(ObjectOf(raw), Chars("content"))
    /\ ~GivesText(ObjectOf(raw), Chars("story"))

\* C25: when the unwrapped response parses as a JSON object but neither
\* content nor story gives non-empty text, the returned content is the
\* complete unwrapped text, and the title is the object's title (title, then
\* story_title), or is synthesized from that content when it is empty or
\* generic
EmptyContentFallsBackToText ==
    (NormDone /\ NoContentCase(call.args[1])) =>
        /\ call.out[2] = Unwrap(call.args[1])
        /\ call.out[1] = IF strip(ObjTitle(call.args[1])) = <<>>
                            \/ lower(strip(ObjTitle(call.args[1]))) \in GenericTitleWords
                         THEN SynthesisByPriority(call.args[2], call.out[2], call.args[3])
                         ELSE strip(ObjTitle(call.args[1]))


\* C26: a successful DELETE of an id removes its record, and a record that is
\* not in the store stays out of it in every later state (no request creates
\* an id a second time): a GET of the id answers 404, the lists do not return
\* it, the statistics count the other records only, and another DELETE of the
\* id answers 404 and changes neither the store nor the files
DeletedStaysAbsent ==
    [][\A id \in 1..(next_uuid - 1) :
          /\ (DeleteStep /\ resp'.story_id = id /\ resp'.status = 200) =>
                ~\E d \in store' : d.id = id
          /\ (~\E d \in store : d.id = id) =>
                /\ ~\E d \in store' : d.id = id
                /\ (DeleteStep /\ resp'.story_id = id) =>
                      resp'.status = 404 /\ UNCHANGED <<store, files>>
                /\ (resp'.handler = "get_story_route" /\ resp'.story_id = id) =>
                      resp'.status = 404
                /\ (resp'.handler \in ListHandlers /\ resp'.stories.t = "list") =>
                      \A i \in DOMAIN resp'.stories.v : resp'.stories.v[i].id # id
                /\ (resp'.handler = "story_stats" /\ resp'.success) =>
                      resp'.stats.total = Cardinality({d \in store' : d.id # id})]_vars

\* one record was created (its upload under the first identifier, the record
\* under the second), a DELETE removed both, and the next DELETE answered 404
DeletedStaysAbsentWitness ==
    /\ nreq = MaxRequests
    /\ next_uuid = 3
    /\ resp.handler \in DeleteHandlers
    /\ resp.status = 404
    /\ resp.story_id = 2
    /\ store = {}
    /\ files = {}


\* the files of record d that a delete handler removes: the upload, and the
\* generated image in the handler of lines 607-657
NamedBy(handler, d) ==
    FileOf("uploads", d.image_filename)
    \cup IF handler = "delete_story_607"
         THEN FileOf("generated", d.generated_image_filename) ELSE {}

\* C27: the delete is not atomic: the files are removed before the record is
\* deleted and nothing is rolled back, so a DELETE whose record delete fails
\* answers 500, leaves the store as it was with the record in it, and leaves
\* the files it has removed removed: of the record's files only those whose
\* removal failed are still there
DeleteNotAtomic ==
    [][\A d \in store :
          (DeleteStep /\ resp'.story_id = d.id /\ resp'.status = 500) =>
             /\ store' = store
             /\ files' \subseteq files
             /\ files \ files' \subseteq NamedBy(resp'.handler, d)
             /\ files' \cap NamedBy(resp'.handler, d) = resp'.remove_failed
             /\ resp'.deleted_files = {}]_vars

\* a DELETE has answered 500 and the record that is still stored names an
\* upload that is no longer there
DeleteNotAtomicWitness ==
    /\ resp.handler \in DeleteHandlers
    /\ resp.status = 500
    /\ \E d \in store :
         /\ d.id = resp.story_id
         /\ FileOf("uploads", d.image_filename) # {}
         /\ FileOf("uploads", d.image_filename) \cap files = {}


\* both DELETE requests have ended
BothFinished ==
    DOMAIN inflight = Requests /\ \A r \in Requests : inflight[r].pc = "done"

\* C28 as stated: for every interleaving of the steps of two DELETEs of one
\* stored record, once both have ended the record is absent, each file is in
\* the deleted_files of at most one request, and each request has ended with
\* success, 404 or 500
ConcurrentDeletesRemoveRecord ==
    BothFinished =>
        /\ \A r \in Requests : ~\E d \in store : d.id = inflight[r].story_id
        /\ inflight[1].deleted_files \cap inflight[2].deleted_files = {}
        /\ \A r \in Requests : inflight[r].status \in {200, 404, 500}

\* C28 amended: once both have ended, the record is absent exactly when one
\* of the requests has answered success, at most one has, each file has been
\* appended to deleted_files by at most one request (so at most one response
\* reports it), each request has ended with success, 404 or 500, and a file
\* that a request has appended is gone
ConcurrentDeletesOneSuccess ==
    BothFinished =>
        /\ \A r \in Requests :
              (~\E d \in store : d.id = inflight[r].story_id)
                 <=> \E w \in Requests : inflight[w].status = 200
        /\ ~(inflight[1].status = 200 /\ inflight[2].status = 200)
        /\ inflight[1].deleted_files \cap inflight[2].deleted_files = {}
        /\ \A r \in Requests :
              /\ inflight[r].status \in {200, 404, 500}
              /\ inflight[r].deleted_files \cap files = {}

\* both requests had read the record; the second removed and reported the
\* upload and deleted the record, the first lost both races and answered 500
\* with nothing appended
ConcurrentDeletesOneSuccessWitness ==
    /\ BothFinished
    /\ inflight[1].status = 500
    /\ inflight[1].story # NoDoc
    /\ inflight[1].deleted_files = {}
    /\ inflight[2].status = 200
    /\ inflight[2].deleted_files # {}
    /\ store = {}


\* C29: the credential auth_service caches is shared by the service objects
\* and CosmosService.close closes it without clearing the cache; no request
\* ever uses a credential that has already been closed
NoUseAfterClose ==
    \A i \in DOMAIN clients : ~clients[i].used_closed


\* the step is the handling of an image-story request by the routes package
RoutesImageStep ==
    nreq' = nreq + 1 /\ resp'.handler = "generate_story_from_image"

\* the routes-package endpoint writes no file before a 400, leaves no upload
\* behind a 500, and after a success the upload is there and the stored
\* record names it
RoutesUploadCleanedUp ==
    RoutesImageStep =>
        /\ resp'.status \in {400, 500} => files' = files /\ store' = store
        /\ resp'.status = 200 =>
              /\ files' = files \cup {<<"uploads", next_uuid>>}
              /\ \E d \in store' : /\ d \notin store
                                   /\ FileOf("uploads", d.image_filename)
                                         = {<<"uploads", next_uuid>>}

\* every uploaded file is named by a stored record
UploadReferenced ==
    \A f \in files : f[1] = "uploads" =>
        \E d \in store : FileOf("uploads", d.image_filename) = {f}

====
